---- MODULE Spec2Model ----
(***************************************************************************)
(* Session simulation of the driving mini-game.  Two builds of the page    *)
(* are modelled side by side, selected by `variant`:                       *)
(*   "script"  : src/script.js (first listing), one simulation step per    *)
(*               animation frame, Box3 collision test;                      *)
(*   "physics" : src/unnamed/part_003, fixed-step loop around a cannon-es  *)
(*               world, collide listeners, invulnerability timer.           *)
(*                                                                         *)
(* Units.  Time is counted in ticks of 1/300 s (PHYSICS_STEP = 1/60 s is   *)
(* 5 ticks), velocities in 1/3000 m/s (so that 2 m/s^2 over one physics     *)
(* step is 100), positions and distances in 1/180000 m (so that one        *)
(* physics step at velocity v moves a body by exactly v).                  *)
(*                                                                         *)
(* JavaScript runs every callback to completion: the actions below are     *)
(* whole callbacks.  The fixed-step frame of the physics build is cut at   *)
(* its three top-level calls (loop, updateVisuals, spawn) with `pc`        *)
(* holding the position; nothing else runs while pc # "idle".              *)
(***************************************************************************)
EXTENDS Integers, Sequences, FiniteSets, TLC

\* ---------------------------------------------------------------- units
SEC == 300 * 1            \* ticks per second
METRE == 180 * 1000       \* position units per metre

Min(a, b) == IF a < b THEN a ELSE b
Max(a, b) == IF a > b THEN a ELSE b
Abs(a) == IF a < 0 THEN 0 - a ELSE a
PosIn(s, x) == CHOOSE k \in 1 .. Len(s) : s[k] = x

\* ------------------------------------------------------ program constants
baseVelocity == 20832          \* 6.944 m/s
minVelocity == 834             \* 0.278 m/s
maxVelocity == 133332          \* 44.444 m/s
maxCollisions == 5             \* physics build
scriptCollisionLimit == 3      \* script.js: `collisionCount < 3`
maxObstacles == 3              \* physics build pool capacity
PHYSICS_STEP == 5              \* 1/60 s
invulnerabilityDuration == 900 \* 3000 ms
completionDistance == 360000000 \* 2000 m
PHYSICS_STEP006 == 6           \* part_006: 1/50 s
lanePositions == <<-2, 0, 2>>
obstacleFrequencyP == 3 * SEC  \* physics build: spawn every 3 s
obstacleFrequencyS == 2 * SEC  \* script.js: spawn every 2 s
orbitDuration == 2 * SEC       \* startCameraOrbit: 2000 ms
introDuration == (3 * SEC) \div 2  \* startCameraAnimation: 1500 ms

\* ------------------------------------------------------------ model bounds
MaxShortWaits == 6       \* short waits in one behaviour
MaxLongWaits == 1        \* long waits in one behaviour
MaxInputChanges == 1     \* joystick changes in one behaviour
DtShortSec == 2          \* a short wait between two callbacks, in seconds
DtLongSec == 48          \* a long wait (stalled tab), in seconds
RandDen == 2             \* Math.random() draws k/RandDen, k in 0..RandDen-1
ScriptPoolSize == 3      \* script.js pool slots (maxObstacles = 10 there)
ContactRangeM == 16      \* car and obstacle can touch within this many metres
                         \* (wide, because the waits between frames are coarse)
MaxLoops == 2            \* pending animate requests allowed at once
MaxRestarts == 1         \* restart clicks in one behaviour
BurstLen == 40           \* fixed steps evaluated in one burst

AccelTicks == 50         \* fixed ticks with accelerate held

Variants == {"script", "physics"}
RandomDraws == 0 .. (RandDen - 1)

VARIABLES
  variant,            \* which build the page runs
  now,                \* Date.now()
  startScreen,        \* #start-screen is displayed
  camStart,           \* startCameraAnimation: camStart, -1 when no intro runs
  rafAnimate,         \* pending requestAnimationFrame(animate) callbacks
  frameDue,           \* how many of them the current display frame still has to run
  animationId,        \* "null", "live" (names a pending request) or "stale"
  pc,                 \* position inside the physics build's animate callback
  frameDt,            \* animate's local dt, kept across its three parts
  previousTime, startTime, elapsedTime,
  physicsDeltaTime, obstacleTimer, difficultyRamp,
  accelerateInput, decelerateInput,
  gameOver, gameCompleted, collisionCount, totalCollisions,
  invulnerable,
  timers,             \* due times of pending setTimeout(invulnerable = false)
  distance, scoreboard, avgSpeed,
  carZ,               \* userCarBody.position.z (grows) / MTC.position.z (falls)
  velocity,           \* userCarBody.velocity.z / velocity
  obstaclePool,       \* slot -> [visible, x, z, speed]
  obstacles,          \* the active list: pool slots in push order
  orbitActive, orbitStartTime,
  orbits,             \* onComplete callbacks of running camera orbits
  leaderboard,        \* entries [time, collisions, score]
  submitPosition,     \* `position` captured by the attached submit listener, -1 if none
  nameInputShown, gameOverShown, gameCompleteShown,
  completionRuns,     \* history: runs of handleGameCompletion's body since the last reset
  restarts,           \* history: restart clicks so far
  shortWaits, longWaits,  \* history: waits of either length so far
  inputChanges,       \* history: joystick changes so far
  storedKind,         \* localStorage "leaderboard" at page load: "absent", "corrupt" or "list"
  carLoaded,          \* MTC.glb loaded: userCarBody (part_003) / MTC (script.js) is defined
  obstacleModelsLoaded, \* every obstacle .glb loaded
  uncaught,           \* history: a callback has ended with an uncaught exception
  pageError,          \* the page's script has stopped with an uncaught exception
  moveLeft, moveRight, \* steer inputs set by the joystick
  joystickActive,     \* the joystick is held
  joystickX, joystickY, \* knob offset, in 1/1000 of joystickMaxDistance
  knobTimers,         \* due times of pending setTimeout(joystickX = 0; joystickY = 0)
  velocityX,          \* userCarBody.velocity.x, in 1/10000 m/s
  steeringWheelActive, \* wheel builds: the wheel is held
  steeringAngle,      \* wheel builds: steeringAngle, in 1/SteerDen
  heading,            \* wheel builds: getBodyYRotation(carBody), in 1/3000 rad
  wheelTimers,        \* wheel builds: due times of pending setTimeout(steeringAngle = 0)
  completionTime,     \* text of #completionTime: [mins, s, ms] as formatTime wrote them, -1 before
  gameResultStats,    \* text of #gameResultStats: [collisions, score], -1 before
  pointerAngle,       \* history: the angle of the most recent pointer event on the wheel
  lastSpawn           \* history: slot taken by the latest spawnObstacle call, -1 if it found none, 0 before any call

vars == << variant, now, startScreen, camStart, rafAnimate, frameDue, animationId, pc, frameDt,
           previousTime, startTime, elapsedTime, physicsDeltaTime, obstacleTimer,
           difficultyRamp, accelerateInput, decelerateInput, gameOver, gameCompleted,
           collisionCount, totalCollisions, invulnerable, timers, distance, scoreboard,
           avgSpeed, carZ, velocity, obstaclePool, obstacles, orbitActive,
           orbitStartTime, orbits, leaderboard, submitPosition, nameInputShown,
           gameOverShown, gameCompleteShown, completionRuns, restarts,
           shortWaits, longWaits, inputChanges, storedKind, pageError, lastSpawn,
           carLoaded, obstacleModelsLoaded, uncaught, moveLeft, moveRight, velocityX,
           steeringWheelActive, steeringAngle, heading, wheelTimers, pointerAngle,
           completionTime, gameResultStats,
           joystickActive, joystickX, joystickY, knobTimers >>

\* The whole program state as one record, so that handlers compose as functions.
G == [ variant |-> variant, now |-> now, startScreen |-> startScreen, camStart |-> camStart,
       rafAnimate |-> rafAnimate, frameDue |-> frameDue, animationId |-> animationId, pc |-> pc, frameDt |-> frameDt,
       previousTime |-> previousTime, startTime |-> startTime, elapsedTime |-> elapsedTime,
       physicsDeltaTime |-> physicsDeltaTime, obstacleTimer |-> obstacleTimer,
       difficultyRamp |-> difficultyRamp, accelerateInput |-> accelerateInput,
       decelerateInput |-> decelerateInput, gameOver |-> gameOver,
       gameCompleted |-> gameCompleted, collisionCount |-> collisionCount,
       totalCollisions |-> totalCollisions, invulnerable |-> invulnerable,
       timers |-> timers, distance |-> distance, scoreboard |-> scoreboard,
       avgSpeed |-> avgSpeed, carZ |-> carZ, velocity |-> velocity,
       obstaclePool |-> obstaclePool, obstacles |-> obstacles, orbitActive |-> orbitActive,
       orbitStartTime |-> orbitStartTime, orbits |-> orbits, leaderboard |-> leaderboard,
       submitPosition |-> submitPosition, nameInputShown |-> nameInputShown,
       gameOverShown |-> gameOverShown, gameCompleteShown |-> gameCompleteShown,
       completionRuns |-> completionRuns, restarts |-> restarts,
       shortWaits |-> shortWaits, longWaits |-> longWaits, inputChanges |-> inputChanges,
       storedKind |-> storedKind, pageError |-> pageError,
       carLoaded |-> carLoaded, obstacleModelsLoaded |-> obstacleModelsLoaded,
       uncaught |-> uncaught,
       moveLeft |-> moveLeft, moveRight |-> moveRight, velocityX |-> velocityX,
       steeringWheelActive |-> steeringWheelActive, steeringAngle |-> steeringAngle,
       heading |-> heading, wheelTimers |-> wheelTimers, pointerAngle |-> pointerAngle,
       completionTime |-> completionTime, gameResultStats |-> gameResultStats,
       joystickActive |-> joystickActive, joystickX |-> joystickX,
       joystickY |-> joystickY, knobTimers |-> knobTimers,
       lastSpawn |-> lastSpawn ]

Set(r) ==
  /\ variant' = r.variant /\ now' = r.now /\ startScreen' = r.startScreen
  /\ camStart' = r.camStart /\ rafAnimate' = r.rafAnimate /\ frameDue' = r.frameDue
  /\ animationId' = r.animationId
  /\ pc' = r.pc /\ frameDt' = r.frameDt /\ previousTime' = r.previousTime
  /\ startTime' = r.startTime /\ elapsedTime' = r.elapsedTime
  /\ physicsDeltaTime' = r.physicsDeltaTime /\ obstacleTimer' = r.obstacleTimer
  /\ difficultyRamp' = r.difficultyRamp /\ accelerateInput' = r.accelerateInput
  /\ decelerateInput' = r.decelerateInput /\ gameOver' = r.gameOver
  /\ gameCompleted' = r.gameCompleted /\ collisionCount' = r.collisionCount
  /\ totalCollisions' = r.totalCollisions /\ invulnerable' = r.invulnerable
  /\ timers' = r.timers /\ distance' = r.distance /\ scoreboard' = r.scoreboard
  /\ avgSpeed' = r.avgSpeed /\ carZ' = r.carZ /\ velocity' = r.velocity
  /\ obstaclePool' = r.obstaclePool /\ obstacles' = r.obstacles
  /\ orbitActive' = r.orbitActive /\ orbitStartTime' = r.orbitStartTime
  /\ orbits' = r.orbits /\ leaderboard' = r.leaderboard
  /\ submitPosition' = r.submitPosition /\ nameInputShown' = r.nameInputShown
  /\ gameOverShown' = r.gameOverShown /\ gameCompleteShown' = r.gameCompleteShown
  /\ completionRuns' = r.completionRuns /\ restarts' = r.restarts
  /\ shortWaits' = r.shortWaits /\ longWaits' = r.longWaits
  /\ inputChanges' = r.inputChanges /\ lastSpawn' = r.lastSpawn
  /\ storedKind' = r.storedKind /\ pageError' = r.pageError
  /\ carLoaded' = r.carLoaded /\ obstacleModelsLoaded' = r.obstacleModelsLoaded
  /\ uncaught' = r.uncaught
  /\ completionTime' = r.completionTime /\ gameResultStats' = r.gameResultStats
  /\ joystickActive' = r.joystickActive /\ joystickX' = r.joystickX
  /\ joystickY' = r.joystickY /\ knobTimers' = r.knobTimers
  /\ moveLeft' = r.moveLeft /\ moveRight' = r.moveRight /\ velocityX' = r.velocityX
  /\ steeringWheelActive' = r.steeringWheelActive /\ steeringAngle' = r.steeringAngle
  /\ heading' = r.heading /\ wheelTimers' = r.wheelTimers /\ pointerAngle' = r.pointerAngle

Slots == 1 .. maxObstacles

\* v * dt / 5 rounded down, computed without leaving 32 bits:
\* a velocity (1/3000 m/s) times a duration (1/300 s) in position units.
Travel(v, dt) == (v \div 5) * dt + ((v % 5) * dt) \div 5

\* --------------------------------------------------------- shared helpers
\* cancelAnimationFrame(animationId): removes the request the id names, if
\* it is still pending.  animationId names the newest request.
cancelAnimationFrame(g) ==
  IF g.animationId = "live"
    THEN [g EXCEPT !.rafAnimate = g.rafAnimate - 1,
                   !.frameDue = Min(g.frameDue, g.rafAnimate - 1),
                   !.animationId = "stale"]
    ELSE g

\* startCameraOrbit(onComplete): orbitStep runs once at once (t = 0) and
\* re-requests itself until Date.now() - orbitStartTime reaches 2000 ms;
\* orbitStartTime is the shared global, so a later orbit restarts the wait
\* of an earlier one.
startCameraOrbit(g, onComplete) ==
  [g EXCEPT !.orbitActive = TRUE, !.orbitStartTime = g.now,
            !.orbits = g.orbits \cup {onComplete}]

\* obstacles.forEach(hide); obstacles = []
HideListed(g, parkY) ==
  [g EXCEPT !.obstaclePool =
              [i \in DOMAIN g.obstaclePool |->
                 IF \E k \in 1 .. Len(g.obstacles) : g.obstacles[k] = i
                   THEN IF parkY
                          THEN [g.obstaclePool[i] EXCEPT !.visible = FALSE, !.y = -1000, !.z = 0]
                          ELSE [g.obstaclePool[i] EXCEPT !.visible = FALSE]
                   ELSE g.obstaclePool[i]],
            !.obstacles = << >>]

\* formatTime(sec): the minutes, seconds and milliseconds it prints, from a
\* time in 1/SEC s.
formatTime(sec) ==
  [mins |-> sec \div (60 * SEC),
   s    |-> (sec % (60 * SEC)) \div SEC,
   ms   |-> ((sec % SEC) * 1000) \div SEC]

\* ------------------------------------------------- physics build (part_003)
triggerGameOverP(g) ==
  IF g.gameOver THEN g
  ELSE LET g1 == [cancelAnimationFrame([g EXCEPT !.gameOver = TRUE])
                    EXCEPT !.animationId = "null"]
       IN startCameraOrbit(g1, "gameOver")

\* handleCollision that does not return once the game is over.
handleCollisionLate(g) ==
  IF g.invulnerable THEN g
  ELSE LET g1 == [g EXCEPT !.collisionCount = g.collisionCount + 1,
                           !.totalCollisions = g.totalCollisions + 1]
       IN IF g1.collisionCount >= maxCollisions THEN triggerGameOverP(g1) ELSE g1

\* handleCollision with the limit test off by one (ends the game one
\* collision early).
handleCollisionEarly(g) ==
  IF g.gameOver \/ g.invulnerable THEN g
  ELSE LET g1 == [g EXCEPT !.collisionCount = g.collisionCount + 1,
                           !.totalCollisions = g.totalCollisions + 1]
       IN IF g1.collisionCount >= maxCollisions - 1 THEN triggerGameOverP(g1) ELSE g1

handleCollisionP(g) ==
  IF g.gameOver \/ g.invulnerable THEN g
  ELSE LET g1 == [g EXCEPT !.collisionCount = g.collisionCount + 1,
                           !.totalCollisions = g.totalCollisions + 1]
       IN IF g1.collisionCount >= maxCollisions THEN triggerGameOverP(g1) ELSE g1

\* The two collide listeners (on the car body and on the obstacle body):
\* one contact between the car and an obstacle body fires both.
carCollideListener(g) == IF ~g.invulnerable THEN handleCollisionP(g) ELSE g
obstacleCollideListener(g) == IF ~g.invulnerable THEN handleCollisionP(g) ELSE g

RECURSIVE Contacts(_, _)
Contacts(g, c) ==
  IF c = 0 THEN g
  ELSE Contacts(obstacleCollideListener(carCollideListener(g)), c - 1)

\* handleGameCompletion that forgets to clear the obstacles.
handleGameCompletionKeep(g) ==
  IF g.gameCompleted THEN g
  ELSE LET g1 == [cancelAnimationFrame([g EXCEPT !.gameCompleted = TRUE])
                    EXCEPT !.animationId = "null",
                           !.avgSpeed = IF g.elapsedTime = 0 THEN -1
                                        ELSE ((g.distance \div g.elapsedTime) * 36) \div 10,
                           !.completionTime = formatTime(g.elapsedTime),
                           !.gameResultStats = [collisions |-> g.totalCollisions,
                                                score |-> g.scoreboard],
                           !.completionRuns = g.completionRuns + 1]
       IN startCameraOrbit(g1, "complete")

handleGameCompletionP(g) ==
  IF g.gameCompleted THEN g
  ELSE LET g1 == [cancelAnimationFrame([g EXCEPT !.gameCompleted = TRUE])
                    EXCEPT !.animationId = "null",
                           !.avgSpeed = IF g.elapsedTime = 0 THEN -1
                                        ELSE ((g.distance \div g.elapsedTime) * 36) \div 10,
                           !.completionTime = formatTime(g.elapsedTime),
                           !.gameResultStats = [collisions |-> g.totalCollisions,
                                                score |-> g.scoreboard],
                           !.completionRuns = g.completionRuns + 1]
       IN startCameraOrbit(HideListed(g1, TRUE), "complete")

\* getObstacleFromPool that does not look at `visible`.
getFirstSlot(g) == 1

getObstacleFromPool(g) ==
  IF \E i \in DOMAIN g.obstaclePool : ~g.obstaclePool[i].visible
    THEN CHOOSE i \in DOMAIN g.obstaclePool :
           /\ ~g.obstaclePool[i].visible
           /\ \A j \in DOMAIN g.obstaclePool : j < i => g.obstaclePool[j].visible
    ELSE -1

\* spawnZ without the fixed 50 m offset.
spawnZNoOffset(userZ, spawnBehind, r) ==
  IF spawnBehind
    THEN userZ - (r * 50 * METRE) \div RandDen
    ELSE userZ + (r * 100 * METRE) \div RandDen

\* Where spawnObstacle puts the obstacle, for a draw r/RandDen.
spawnZ003(userZ, spawnBehind, r) ==
  IF spawnBehind
    THEN userZ - (50 * METRE + (r * 50 * METRE) \div RandDen)
    ELSE userZ + (50 * METRE + (r * 100 * METRE) \div RandDen)

\* spawnObstacle with its four Math.random() draws r[1]/RandDen .. r[4]/RandDen:
\* side, lane, distance, speed.
spawnObstacleP(g, r) ==
  LET poolIndex == getObstacleFromPool(g)
      spawnBehind == 2 * r[1] < RandDen
      lane == lanePositions[(r[2] * Len(lanePositions)) \div RandDen + 1]
      obstacleSpeed == IF spawnBehind
                         THEN 24990 + g.difficultyRamp + (r[4] * 15000) \div RandDen
                         ELSE 8310 + g.difficultyRamp + (r[4] * 15000) \div RandDen
  IN IF poolIndex = -1 THEN [g EXCEPT !.lastSpawn = -1]
     ELSE [g EXCEPT !.obstaclePool[poolIndex] =
                        [visible |-> TRUE, y |-> 0, x |-> lane,
                         z |-> spawnZ003(g.carZ, spawnBehind, r[3]),
                         speed |-> obstacleSpeed],
                    !.obstacles = Append(g.obstacles, poolIndex),
                    !.lastSpawn = poolIndex]

\* updateObstacles: recycle every listed obstacle more than 2000 m from the car.
updateObstaclesP(g) ==
  LET far(i) == \/ g.obstaclePool[i].z > g.carZ + 2000 * METRE
                \/ g.obstaclePool[i].z < g.carZ - 2000 * METRE
  IN [g EXCEPT !.obstaclePool =
                 [i \in DOMAIN g.obstaclePool |->
                    IF (\E k \in 1 .. Len(g.obstacles) : g.obstacles[k] = i) /\ far(i)
                      THEN [g.obstaclePool[i] EXCEPT !.visible = FALSE, !.y = -1000, !.z = 0]
                      ELSE g.obstaclePool[i]],
               !.obstacles = SelectSeq(g.obstacles, LAMBDA i : ~far(i))]

\* Bodies the car can touch: at road height and within contact range.
\* Pool bodies are created at the origin and stay there until first spawned;
\* hidden bodies are parked at y = -1000.
NearBodies(g) ==
  Cardinality({i \in DOMAIN g.obstaclePool :
                 /\ g.obstaclePool[i].y = 0
                 /\ Abs(g.obstaclePool[i].z - g.carZ) <= ContactRangeM * METRE})

\* physicsWorld.step(dt), abstracted: every body advances by its velocity
\* (one step at velocity v is v position units); `c` begin-contact events
\* between the car and obstacle bodies are dispatched to the listeners.
worldStep(g, c) ==
  LET listed(i) == \E k \in 1 .. Len(g.obstacles) : g.obstacles[k] = i
      g1 == [g EXCEPT !.carZ = g.carZ + g.velocity,
                      !.obstaclePool =
                        [i \in DOMAIN g.obstaclePool |->
                           IF listed(i)
                             THEN [g.obstaclePool[i] EXCEPT !.z = @ + g.obstaclePool[i].speed]
                             ELSE g.obstaclePool[i]]]
  IN Contacts(g1, c)

currentVelZ(g) ==
  IF g.accelerateInput THEN Min(g.velocity + 15000, maxVelocity)
  ELSE IF g.decelerateInput THEN Max(g.velocity - 15000, minVelocity)
  ELSE IF g.velocity > baseVelocity
         THEN Max(g.velocity - (6000 * PHYSICS_STEP) \div SEC, baseVelocity)
  ELSE IF g.velocity < baseVelocity
         THEN Min(g.velocity + (6000 * PHYSICS_STEP) \div SEC, baseVelocity)
  ELSE g.velocity

\* updatePhysics(PHYSICS_STEP) with c contacts in the world step.  Nothing in
\* it looks at gameOver or gameCompleted.
updatePhysics(g, c) ==
  LET g1 == worldStep(g, c)
      g2 == [g1 EXCEPT !.velocity = currentVelZ(g1)]
  IN updateObstaclesP(g2)

\* m further contact-free steps once the velocity update has reached its
\* fixed point: every step adds the same displacement, and an obstacle that
\* leaves the 2000 m band during them is recycled.
Advance(g, m) ==
  LET listed(i) == \E k \in 1 .. Len(g.obstacles) : g.obstacles[k] = i
  IN updateObstaclesP(
       [g EXCEPT !.carZ = g.carZ + m * g.velocity,
                 !.obstaclePool =
                   [i \in DOMAIN g.obstaclePool |->
                      IF listed(i)
                        THEN [g.obstaclePool[i] EXCEPT !.z = @ + m * g.obstaclePool[i].speed]
                        ELSE g.obstaclePool[i]]])

\* k consecutive updatePhysics calls without contacts.  Steady(g): another
\* step would leave the velocity as it is.  The steps are taken in bursts of
\* at most BurstLen to keep the evaluation shallow.
Steady(g) == currentVelZ(g) = g.velocity

RECURSIVE Burst(_, _)
Burst(g, k) ==
  IF k = 0 THEN g
  ELSE IF Steady(g) THEN Advance(g, k)
  ELSE Burst(updatePhysics(g, 0), k - 1)

RECURSIVE RunQuiet(_, _)
RunQuiet(g, k) ==
  IF k <= BurstLen THEN Burst(g, k)
  ELSE IF Steady(g) THEN Advance(g, k)
  ELSE LET g1 == Burst(g, BurstLen)
       IN IF Steady(g1) THEN Advance(g1, k - BurstLen) ELSE RunQuiet(g1, k - BurstLen)

\* The while loop of animate: n steps, with c contacts in step `hit`.
PhysicsLoop(g, n, hit, c) ==
  IF n = 0 \/ c = 0 THEN RunQuiet(g, n)
  ELSE RunQuiet(updatePhysics(RunQuiet(g, hit - 1), c), n - hit)

\* animate, up to and including the fixed-step loop.  Without userCarBody
\* the first updatePhysics ends in updateObstacles reading
\* userCarBody.position.z: the TypeError leaves animate before
\* physicsDeltaTime is reduced.
animateLoopP(g, hit, c) ==
  IF g.gameOver \/ g.gameCompleted
    THEN [cancelAnimationFrame(g) EXCEPT !.animationId = "null"]
  ELSE LET dt == g.now - g.previousTime
           acc == g.physicsDeltaTime + dt
           n == acc \div PHYSICS_STEP
           g1 == [g EXCEPT !.rafAnimate = g.rafAnimate + 1, !.animationId = "live",
                           !.previousTime = g.now, !.frameDt = dt, !.pc = "visuals"]
       IN IF ~g.carLoaded /\ n >= 1
            THEN [worldStep(g1, 0) EXCEPT !.carZ = g1.carZ, !.physicsDeltaTime = acc,
                                          !.pc = "idle", !.uncaught = TRUE]
            ELSE [PhysicsLoop(g1, n, hit, c) EXCEPT !.physicsDeltaTime = acc - n * PHYSICS_STEP]

\* updateVisuals(dt)
updateVisuals(g) ==
  LET d == IF g.carLoaded THEN Max(0, g.carZ) ELSE g.distance
      g1 == [g EXCEPT !.elapsedTime = g.now - g.startTime,
                      !.difficultyRamp = 2 * (g.now - g.startTime),
                      !.distance = d,
                      !.scoreboard = d \div METRE]
  IN IF g1.distance >= completionDistance THEN handleGameCompletionP(g1) ELSE g1

\* animate, after updateVisuals: the spawn timer.  Without userCarBody
\* spawnObstacle throws once it has found a free slot, before the timer is
\* zeroed.
animateSpawnP(g, r) ==
  LET t == g.obstacleTimer + g.frameDt
  IN IF t >= obstacleFrequencyP
       THEN IF ~g.carLoaded /\ getObstacleFromPool(g) # -1
              THEN [g EXCEPT !.obstacleTimer = t, !.uncaught = TRUE]
              ELSE [spawnObstacleP(g, r) EXCEPT !.obstacleTimer = 0]
       ELSE [g EXCEPT !.obstacleTimer = t]

resetGameStateP(g) ==
  [HideListed(g, TRUE) EXCEPT
     !.collisionCount = 0, !.totalCollisions = 0, !.distance = 0, !.scoreboard = 0,
     !.gameOver = FALSE, !.gameCompleted = FALSE, !.orbitActive = FALSE,
     !.gameOverShown = FALSE, !.gameCompleteShown = FALSE,
     !.carZ = 0, !.velocity = 0,
     !.obstacleTimer = 0, !.difficultyRamp = 0,
     !.previousTime = g.now, !.startTime = g.now,
     !.invulnerable = TRUE,
     !.timers = g.timers \cup {g.now + invulnerabilityDuration},
     !.completionRuns = 0]

\* --------------------------------------------------- script.js (first listing)
\* triggerGameOver that also clears the collision counter.
triggerGameOverClear(g) ==
  IF g.gameOver THEN g
  ELSE startCameraOrbit(cancelAnimationFrame([g EXCEPT !.gameOver = TRUE, !.collisionCount = 0]),
                        "gameOver")

triggerGameOverS(g) ==
  IF g.gameOver THEN g
  ELSE startCameraOrbit(cancelAnimationFrame([g EXCEPT !.gameOver = TRUE]), "gameOver")

handleCollisionS(g) ==
  LET g1 == [g EXCEPT !.collisionCount = g.collisionCount + 1,
                      !.totalCollisions = g.totalCollisions + 1]
  IN IF g1.collisionCount < scriptCollisionLimit THEN g1 ELSE triggerGameOverS(g1)

handleGameCompletionS(g) ==
  IF g.gameCompleted THEN g
  ELSE LET g1 == [cancelAnimationFrame([g EXCEPT !.gameCompleted = TRUE])
                    EXCEPT !.avgSpeed = IF g.elapsedTime = 0 THEN -1
                                        ELSE ((g.distance \div g.elapsedTime) * 36) \div 10,
                           !.completionTime = formatTime(g.elapsedTime),
                           !.gameResultStats = [collisions |-> g.totalCollisions,
                                                score |-> g.scoreboard],
                           !.completionRuns = g.completionRuns + 1]
       IN startCameraOrbit(HideListed(g1, FALSE), "complete")

\* Where spawnObstacle puts the obstacle, for a draw r/RandDen: the first
\* and the second listing of script.js, and part_006.
spawnZA(carPosZ, r) == carPosZ - 100 * METRE - (r * 50 * METRE) \div RandDen
spawnZB(carPosZ, r) == carPosZ - 120 * METRE - (r * 80 * METRE) \div RandDen
spawnZ006(userZ, r) == userZ - 150 * METRE - (r * 100 * METRE) \div RandDen

\* spawnObstacle that reuses the first slot when the pool has no free one.
spawnObstacleReuse(g, r) ==
  LET obs == IF getObstacleFromPool(g) = -1 THEN 1 ELSE getObstacleFromPool(g)
      lane == lanePositions[(r[1] * Len(lanePositions)) \div RandDen + 1]
  IN [g EXCEPT !.obstaclePool[obs] =
                   [visible |-> TRUE, y |-> 0, x |-> lane,
                    z |-> g.carZ - 100 * METRE - (r[2] * 50 * METRE) \div RandDen,
                    speed |-> (66666 + g.difficultyRamp) + (r[3] * 30000) \div RandDen],
               !.obstacles = Append(g.obstacles, obs),
               !.lastSpawn = obs]

\* spawnObstacle with its three Math.random() draws r[1]/RandDen .. r[3]/RandDen:
\* lane, distance, speed.
spawnObstacleS(g, r) ==
  LET obs == getObstacleFromPool(g)
      lane == lanePositions[(r[1] * Len(lanePositions)) \div RandDen + 1]
  IN IF obs = -1 THEN [g EXCEPT !.lastSpawn = -1]
     ELSE [g EXCEPT !.obstaclePool[obs] =
                        [visible |-> TRUE, y |-> 0, x |-> lane,
                         z |-> spawnZA(g.carZ, r[2]),
                         speed |-> (66666 + g.difficultyRamp) + (r[3] * 30000) \div RandDen],
                    !.obstacles = Append(g.obstacles, obs),
                    !.lastSpawn = obs]

\* part_006: spawnObstacle, same draws
spawnObstacle006(g, r) ==
  LET poolIndex == getObstacleFromPool(g)
      lane == lanePositions[(r[1] * Len(lanePositions)) \div RandDen + 1]
  IN IF poolIndex = -1 THEN [g EXCEPT !.lastSpawn = -1]
     ELSE [g EXCEPT !.obstaclePool[poolIndex] =
                        [visible |-> TRUE, y |-> 0, x |-> lane,
                         z |-> spawnZ006(g.carZ, r[2]),
                         speed |-> 66666 + g.difficultyRamp + (r[3] * 30000) \div RandDen],
                    !.obstacles = Append(g.obstacles, poolIndex),
                    !.lastSpawn = poolIndex]

\* updateObstacles that hides an obstacle behind the car and leaves it listed.
updateObstaclesKeep(g, dt) ==
  LET newZ(i) == g.obstaclePool[i].z - Travel(g.obstaclePool[i].speed, dt)
      listed(i) == \E k \in 1 .. Len(g.obstacles) : g.obstacles[k] = i
  IN [g EXCEPT !.obstaclePool =
                 [i \in DOMAIN g.obstaclePool |->
                    IF listed(i) /\ g.obstaclePool[i].visible
                      THEN [g.obstaclePool[i] EXCEPT !.z = newZ(i),
                                                     !.visible = ~(newZ(i) > g.carZ + 50 * METRE)]
                      ELSE g.obstaclePool[i]],
               !.obstacles = SelectSeq(g.obstacles, LAMBDA i : g.obstaclePool[i].visible)]

\* updateObstacles that recycles every obstacle that is not more than 50 m
\* ahead of the car.
updateObstaclesNear(g, dt) ==
  LET newZ(i) == g.obstaclePool[i].z - Travel(g.obstaclePool[i].speed, dt)
      listed(i) == \E k \in 1 .. Len(g.obstacles) : g.obstacles[k] = i
      gone(i) == ~g.obstaclePool[i].visible \/ newZ(i) > g.carZ - 50 * METRE
  IN [g EXCEPT !.obstaclePool =
                 [i \in DOMAIN g.obstaclePool |->
                    IF listed(i) /\ g.obstaclePool[i].visible
                      THEN [g.obstaclePool[i] EXCEPT !.z = newZ(i),
                                                     !.visible = ~(newZ(i) > g.carZ - 50 * METRE)]
                      ELSE g.obstaclePool[i]],
               !.obstacles = SelectSeq(g.obstacles, LAMBDA i : ~gone(i))]

\* updateObstacles(dt): advance every listed obstacle, recycle those more
\* than 50 m behind the car.
updateObstaclesS(g, dt) ==
  LET newZ(i) == g.obstaclePool[i].z - Travel(g.obstaclePool[i].speed, dt)
      listed(i) == \E k \in 1 .. Len(g.obstacles) : g.obstacles[k] = i
      gone(i) == ~g.obstaclePool[i].visible \/ newZ(i) > g.carZ + 50 * METRE
  IN [g EXCEPT !.obstaclePool =
                 [i \in DOMAIN g.obstaclePool |->
                    IF listed(i) /\ g.obstaclePool[i].visible
                      THEN [g.obstaclePool[i] EXCEPT !.z = newZ(i),
                                                     !.visible = ~(newZ(i) > g.carZ + 50 * METRE)]
                      ELSE g.obstaclePool[i]],
               !.obstacles = SelectSeq(g.obstacles, LAMBDA i : ~gone(i))]

\* Obstacles whose box can intersect the car's box.
Touchable(g) ==
  {i \in DOMAIN g.obstaclePool :
     /\ \E k \in 1 .. Len(g.obstacles) : g.obstacles[k] = i
     /\ g.obstaclePool[i].visible
     /\ Abs(g.obstaclePool[i].z - g.carZ) <= ContactRangeM * METRE}

\* checkCollisions: every listed obstacle whose box intersects the car's
\* (the set `hits`) is handled, hidden and removed; the loop does not stop
\* when the game ends.
RECURSIVE checkCollisions(_, _)
checkCollisions(g, hits) ==
  IF hits = {} THEN g
  ELSE LET i == CHOOSE j \in hits : \A k \in hits : PosIn(g.obstacles, j) >= PosIn(g.obstacles, k)
           g1 == handleCollisionS(g)
           g2 == [g1 EXCEPT !.obstaclePool[i].visible = FALSE,
                            !.obstacles = SelectSeq(g1.obstacles, LAMBDA s : s # i)]
       IN checkCollisions(g2, hits \ {i})

velocityS(g, dt) ==
  IF g.accelerateInput THEN Min(g.velocity + 50 * dt, maxVelocity)
  ELSE IF g.decelerateInput THEN Max(g.velocity - 50 * dt, minVelocity)
  ELSE IF g.velocity > baseVelocity THEN Max(g.velocity - 20 * dt, baseVelocity)
  ELSE IF g.velocity < baseVelocity THEN Min(g.velocity + 20 * dt, baseVelocity)
  ELSE g.velocity

\* animate's head with `distance = velocity * dt` in place of `+=`.
animateHeadAssign(g) ==
  LET dt == g.now - g.previousTime
      d == Travel(g.velocity, dt)
  IN [g EXCEPT !.rafAnimate = g.rafAnimate + 1, !.animationId = "live",
               !.frameDt = dt, !.previousTime = g.now,
               !.elapsedTime = g.now - g.startTime,
               !.difficultyRamp = 2 * (g.now - g.startTime),
               !.distance = d, !.scoreboard = d \div METRE]

\* animate that does not request the next frame.
animateHeadOnce(g) ==
  LET dt == g.now - g.previousTime
      d == g.distance + Travel(g.velocity, dt)
  IN [g EXCEPT !.frameDt = dt, !.previousTime = g.now,
               !.elapsedTime = g.now - g.startTime,
               !.difficultyRamp = 2 * (g.now - g.startTime),
               !.distance = d, !.scoreboard = d \div METRE]

\* animate's head that takes the score from the distance of the frame before.
animateHeadStale(g) ==
  LET dt == g.now - g.previousTime
      d == g.distance + Travel(g.velocity, dt)
  IN [g EXCEPT !.rafAnimate = g.rafAnimate + 1, !.animationId = "live",
               !.frameDt = dt, !.previousTime = g.now,
               !.elapsedTime = g.now - g.startTime,
               !.difficultyRamp = 2 * (g.now - g.startTime),
               !.distance = d, !.scoreboard = g.distance \div METRE]

\* animate from its first statement to the completion check.
animateHeadS(g) ==
  LET dt == g.now - g.previousTime
      d == g.distance + Travel(g.velocity, dt)
  IN [g EXCEPT !.rafAnimate = g.rafAnimate + 1, !.animationId = "live",
               !.frameDt = dt, !.previousTime = g.now,
               !.elapsedTime = g.now - g.startTime,
               !.difficultyRamp = 2 * (g.now - g.startTime),
               !.distance = d, !.scoreboard = d \div METRE]

\* animate that zeroes the spawn timer only when spawnObstacle found a slot.
animateMoveKeep(g, r) ==
  LET dt == g.frameDt
      v == velocityS(g, dt)
      g2 == updateObstaclesS([g EXCEPT !.velocity = v, !.carZ = g.carZ - Travel(v, dt)], dt)
      t == g2.obstacleTimer + dt
  IN IF t >= obstacleFrequencyS
       THEN [spawnObstacleS(g2, r) EXCEPT
               !.obstacleTimer = IF getObstacleFromPool(g2) = -1 THEN t ELSE 0]
       ELSE [g2 EXCEPT !.obstacleTimer = t]

\* animateMoveS that moves the car before it updates the velocity.
animateMoveEarly(g, r) ==
  LET dt == g.frameDt
      v == velocityS(g, dt)
      g2 == updateObstaclesS([g EXCEPT !.velocity = v, !.carZ = g.carZ - Travel(g.velocity, dt)], dt)
      t == g2.obstacleTimer + dt
  IN IF t >= obstacleFrequencyS
       THEN [spawnObstacleS(g2, r) EXCEPT !.obstacleTimer = 0]
       ELSE [g2 EXCEPT !.obstacleTimer = t]

\* animate from the velocity update to the spawn timer (everything between
\* the completion check and checkCollisions).
animateMoveS(g, r) ==
  LET dt == g.frameDt
      v == velocityS(g, dt)
      g2 == updateObstaclesS([g EXCEPT !.velocity = v, !.carZ = g.carZ - Travel(v, dt)], dt)
      t == g2.obstacleTimer + dt
  IN IF t >= obstacleFrequencyS
       THEN [spawnObstacleS(g2, r) EXCEPT !.obstacleTimer = 0]
       ELSE [g2 EXCEPT !.obstacleTimer = t]

\* Without MTC the steering block throws (MTC.rotation.z), after the
\* velocity update and before updateObstacles.
animateS(g, r, hits) ==
  IF g.gameOver \/ g.gameCompleted THEN g
  ELSE LET g1 == animateHeadS(g)
       IN IF g1.distance >= completionDistance
            THEN handleGameCompletionS(g1)
          ELSE IF ~g.carLoaded
            THEN [g1 EXCEPT !.velocity = velocityS(g1, g1.frameDt), !.uncaught = TRUE]
          ELSE checkCollisions(animateMoveS(g1, r), hits)

resetGameStateS(g) ==
  [HideListed(g, FALSE) EXCEPT
     !.collisionCount = 0, !.totalCollisions = 0, !.distance = 0, !.scoreboard = 0,
     !.velocity = baseVelocity,
     !.gameOver = FALSE, !.gameCompleted = FALSE, !.orbitActive = FALSE,
     !.gameOverShown = FALSE, !.gameCompleteShown = FALSE,
     !.carZ = 0,
     !.obstacleTimer = 0, !.difficultyRamp = 0,
     !.previousTime = g.now, !.startTime = g.now,
     !.completionRuns = 0]

\* ------------------------------------------------ part_006: updatePhysics
\* The forward velocity update of part_006, whose forward axis is -z:
\* v is userCarBody.velocity.z.
currentVelZ006(v, accelerate, decelerate) ==
  IF accelerate THEN Max(v - 15000, 0 - maxVelocity)
  ELSE IF decelerate THEN Min(v + 15000, 0 - minVelocity)
  ELSE IF v < 0 - baseVelocity
         THEN Min(v + (6000 * PHYSICS_STEP006) \div SEC, 0 - baseVelocity)
  ELSE IF v > 0 - baseVelocity
         THEN Max(v - (6000 * PHYSICS_STEP006) \div SEC, 0 - baseVelocity)
  ELSE v

\* n consecutive fixed ticks with accelerate held: part_006, part_003, and
\* script.js with frames one part_006 step apart.
RECURSIVE HoldAccelerate006(_, _)
HoldAccelerate006(v, n) ==
  IF n = 0 THEN v
  ELSE LET w == currentVelZ006(v, TRUE, FALSE)
       IN IF w = w THEN HoldAccelerate006(w, n - 1) ELSE w

Accelerating(v) == [accelerateInput |-> TRUE, decelerateInput |-> FALSE, velocity |-> v]

RECURSIVE HoldAccelerateP(_, _)
HoldAccelerateP(v, n) ==
  IF n = 0 THEN v
  ELSE LET w == currentVelZ(Accelerating(v))
       IN IF w = w THEN HoldAccelerateP(w, n - 1) ELSE w

RECURSIVE HoldAccelerateS(_, _)
HoldAccelerateS(v, n) ==
  IF n = 0 THEN v
  ELSE LET w == velocityS(Accelerating(v), PHYSICS_STEP006)
       IN IF w = w THEN HoldAccelerateS(w, n - 1) ELSE w

\* ---------------------------------- car-logic builds (main.js, part_001)
MAX_FORWARD_SPEED == 60000     \* 20 m/s
MAX_REVERSE_SPEED == 15000     \* 5 m/s
ENGINE_FORCE == 1200           \* main.js, second listing: newtons
BRAKE_FORCE == 900
ENGINE_FORCE001 == 100         \* part_001: 10 m/s per second
BRAKE_FORCE001 == 80           \* part_001: 8 m/s per second
idleSpeed == 0

\* main.js (second listing) updateCarLogic, gas pedal: the force it applies
\* along the heading.
gasPedal(accel, forwardSpeed) ==
  IF accel /\ forwardSpeed < MAX_FORWARD_SPEED THEN ENGINE_FORCE ELSE 0

\* main.js (second listing) updateCarLogic, brake pedal.
brakePedal(brakeInput, forwardSpeed) ==
  IF brakeInput /\ forwardSpeed > 0 - MAX_REVERSE_SPEED THEN 0 - BRAKE_FORCE ELSE 0

\* The force one updateCarLogic call applies: two independent if statements.
updateCarLogicForce(accel, brakeInput, forwardSpeed) ==
  gasPedal(accel, forwardSpeed) + brakePedal(brakeInput, forwardSpeed)

\* part_001 updateCarLogic: the new forward speed.
updateCarLogic001(speed, accel, brakeInput, dt) ==
  IF accel THEN Min(speed + ENGINE_FORCE001 * dt, MAX_FORWARD_SPEED)
  ELSE IF brakeInput THEN Max(speed - BRAKE_FORCE001 * dt, 0 - MAX_REVERSE_SPEED)
  ELSE IF speed - idleSpeed > 0 THEN Max(speed - 20 * dt, idleSpeed)
  ELSE IF speed - idleSpeed < 0 THEN Min(speed + 20 * dt, idleSpeed)
  ELSE speed

\* main.js (first listing) updateLogic: the new forward velocity vz.
baseVelocityMain == 15000      \* 5 m/s
minVelocityMain == 3000        \* 1 m/s
maxVelocityMain == 60000       \* 20 m/s

updateLogicVz(vz, accel, decel, dt) ==
  IF accel THEN Min(vz + 100 * dt, maxVelocityMain)
  ELSE IF decel THEN Max(vz - 100 * dt, minVelocityMain)
  ELSE IF vz > baseVelocityMain THEN vz - 20 * dt
  ELSE IF vz < baseVelocityMain THEN vz + 20 * dt
  ELSE vz

\* ------------------------------------------------------------ leaderboard
InsertAt(lb, position, e) ==
  LET p == Min(position, Len(lb))
  IN SubSeq(lb, 1, p) \o << e >> \o SubSeq(lb, p + 1, Len(lb))

\* The index updateLeaderboard computes: the first i with
\* elapsedTime < leaderboard[i].time, else the length while the list has
\* fewer than 10 entries, else null (-1).  Indices are JavaScript's (from 0).
Position(lb, t) ==
  IF \E i \in 1 .. Len(lb) : t < lb[i].time
    THEN (CHOOSE i \in 1 .. Len(lb) :
            /\ t < lb[i].time
            /\ \A j \in 1 .. (i - 1) : ~(t < lb[j].time)) - 1
  ELSE IF Len(lb) < 10 THEN Len(lb)
  ELSE -1

\* updateLeaderboard: when a position exists the prompt is shown and the
\* submit button is replaced by a clone carrying a new listener that closes
\* over `position`; otherwise button and prompt are left as they are.
updateLeaderboard(g) ==
  LET position == Position(g.leaderboard, g.elapsedTime)
  IN IF position # -1
       THEN [g EXCEPT !.nameInputShown = TRUE, !.submitPosition = position]
       ELSE g

\* The submit listener: reads elapsedTime, totalCollisions and scoreboard
\* when clicked, and uses the position captured when it was attached.
submitClick(g) ==
  LET e == [time |-> g.elapsedTime, collisions |-> g.totalCollisions, score |-> g.scoreboard]
      lb == InsertAt(g.leaderboard, g.submitPosition, e)
  IN [g EXCEPT !.leaderboard = IF Len(lb) > 10 THEN SubSeq(lb, 1, Len(lb) - 1) ELSE lb,
               !.nameInputShown = FALSE, !.gameCompleteShown = FALSE]

\* localStorage contents at page load: lists the page itself has written.
StoredEntry(t) == [time |-> t * SEC, collisions |-> 0, score |-> 2000]
StoredBoards ==
  { [i \in 1 .. 10 |-> StoredEntry(40 + 2 * i)] }

\* What localStorage holds under "leaderboard" when the page loads: nothing,
\* text that is not JSON, or a list written by the page.
StoredItems ==
  {[kind |-> "absent", value |-> << >>], [kind |-> "corrupt", value |-> << >>]}
    \cup {[kind |-> "list", value |-> b] : b \in StoredBoards}

\* JSON.parse(localStorage.getItem("leaderboard")): getItem gives null for a
\* missing key and JSON.parse(null) is null; text that is not JSON makes
\* JSON.parse throw a SyntaxError.
JSONparse(item) ==
  IF item.kind = "corrupt" THEN [threw |-> TRUE, isNull |-> FALSE, value |-> << >>]
  ELSE IF item.kind = "absent" THEN [threw |-> FALSE, isNull |-> TRUE, value |-> << >>]
  ELSE [threw |-> FALSE, isNull |-> FALSE, value |-> item.value]

\* let leaderboard = JSON.parse(...) || [];  at the top level of the script:
\* an exception here ends the script before any listener is attached.
loadLeaderboard(item) ==
  LET parsed == JSONparse(item)
  IN IF parsed.threw THEN [threw |-> TRUE, value |-> << >>]
     ELSE [threw |-> FALSE, value |-> IF parsed.isNull THEN << >> ELSE parsed.value]

\* ------------------------------------------------------------------ Init
\* The page once loadModels has settled, for the given outcomes of the car
\* load and of the obstacle loads.  part_003 builds its pool from
\* placeholders when a load fails; script.js builds its pool only when every
\* obstacle model has loaded and retries every 2 s until then.
InitWith(carOutcomes, obstacleOutcomes) ==
  /\ carLoaded \in carOutcomes
  /\ obstacleModelsLoaded \in obstacleOutcomes
  /\ uncaught = FALSE
  /\ now = 0
  /\ startScreen = TRUE
  /\ camStart = -1
  /\ rafAnimate = 0
  /\ frameDue = 0
  /\ animationId = "null"
  /\ pc = "idle"
  /\ frameDt = 0
  /\ previousTime = 0 /\ startTime = 0 /\ elapsedTime = 0
  /\ physicsDeltaTime = 0 /\ obstacleTimer = 0 /\ difficultyRamp = 0
  /\ accelerateInput = FALSE /\ decelerateInput = FALSE
  /\ gameOver = FALSE /\ gameCompleted = FALSE
  /\ collisionCount = 0 /\ totalCollisions = 0
  /\ invulnerable = (variant = "physics")
  /\ timers = {}
  /\ distance = 0 /\ scoreboard = 0 /\ avgSpeed = 0
  /\ carZ = 0
  /\ velocity = IF variant = "script" THEN baseVelocity ELSE 0
  /\ obstaclePool = [i \in 1 .. (IF variant = "physics" THEN maxObstacles
                                    ELSE IF obstacleModelsLoaded THEN ScriptPoolSize ELSE 0) |->
                       [visible |-> FALSE, y |-> 0, x |-> 0, z |-> 0, speed |-> 0]]
  /\ obstacles = << >>
  /\ orbitActive = FALSE /\ orbitStartTime = 0
  /\ orbits = {}
  /\ \E item \in StoredItems :
       /\ storedKind = item.kind
       /\ leaderboard = loadLeaderboard(item).value
       /\ pageError = loadLeaderboard(item).threw
  /\ submitPosition = -1
  /\ nameInputShown = FALSE /\ gameOverShown = FALSE /\ gameCompleteShown = FALSE
  /\ completionRuns = 0
  /\ restarts = 0
  /\ shortWaits = 0 /\ longWaits = 0 /\ inputChanges = 0
  /\ lastSpawn = 0
  /\ moveLeft = FALSE /\ moveRight = FALSE
  /\ joystickActive = FALSE /\ joystickX = 0 /\ joystickY = 0 /\ knobTimers = {}
  /\ steeringWheelActive = FALSE /\ steeringAngle = 0
  /\ wheelTimers = {} /\ pointerAngle = 0
  /\ completionTime = [mins |-> -1, s |-> -1, ms |-> -1]
  /\ gameResultStats = [collisions |-> -1, score |-> -1]

\* Every asset has loaded.
Init == variant \in Variants /\ InitWith({TRUE}, {TRUE}) /\ velocityX = 0 /\ heading = 0

\* Any combination of load successes and failures.
InitLoad == variant \in Variants /\ InitWith(BOOLEAN, BOOLEAN) /\ velocityX = 0 /\ heading = 0

\* --------------------------------------------------------------- actions
Idle == pc = "idle"
NoOverdueTimer == \A d \in timers : d > now

\* A pending animate request is taken off the queue; the oldest request
\* runs first, and animationId names the newest.
FrameFired(g) ==
  [g EXCEPT !.rafAnimate = g.rafAnimate - 1, !.frameDue = g.frameDue - 1,
            !.animationId = IF g.rafAnimate = 1 /\ g.animationId = "live" THEN "stale"
                            ELSE g.animationId]

\* animate() called directly (not as a frame callback) in the physics build:
\* all three parts in one go.  The draws of the spawn are immaterial here,
\* the callers have just zeroed the spawn timer and dt is 0.
animateP(g) ==
  LET g1 == animateLoopP(g, 1, 0)
  IN IF g.gameOver \/ g.gameCompleted \/ g1.pc = "idle" THEN g1
     ELSE [animateSpawnP(updateVisuals(g1), <<0, 0, 0, 0>>) EXCEPT !.pc = "idle"]

\* The restart listeners of the three builds.  script.js: onRestart;
\* part_003: reset, and animate() when no request is recorded; part_006: the
\* listener is resetGameState itself, which has no invulnerability timer
\* and puts the car at z = 20.
onRestart(g) == animateS(resetGameStateS(g), <<0, 0, 0>>, {})

restartListener003(g) ==
  LET g1 == resetGameStateP(g)
  IN IF g1.animationId = "null" THEN animateP(g1) ELSE g1

resetGameState006(g) ==
  [HideListed(g, TRUE) EXCEPT
     !.collisionCount = 0, !.totalCollisions = 0, !.distance = 0, !.scoreboard = 0,
     !.gameOver = FALSE, !.gameCompleted = FALSE, !.orbitActive = FALSE,
     !.gameOverShown = FALSE, !.gameCompleteShown = FALSE,
     !.carZ = 20 * METRE, !.velocity = 0,
     !.obstacleTimer = 0, !.difficultyRamp = 0,
     !.previousTime = g.now, !.startTime = g.now,
     !.completionRuns = 0]

restartListener006(g) == resetGameState006(g)

\* Wall-clock time passes until the next display frame.  The event loop
\* runs every callback that is due before it waits again: expired timers,
\* then the frame callbacks requested before this frame.
IntroDue == camStart >= 0 /\ now - camStart >= introDuration
OrbitDue == orbits # {} /\ now - orbitStartTime >= orbitDuration

Tick ==
  /\ Idle /\ NoOverdueTimer /\ frameDue = 0 /\ ~IntroDue /\ ~OrbitDue
  /\ camStart >= 0 \/ rafAnimate > 0 \/ orbits # {} \/ timers # {}
  /\ \/ /\ shortWaits < MaxShortWaits
        /\ Set([G EXCEPT !.now = now + DtShortSec * SEC, !.frameDue = rafAnimate,
                          !.shortWaits = shortWaits + 1])
     \/ /\ longWaits < MaxLongWaits
        /\ Set([G EXCEPT !.now = now + DtLongSec * SEC, !.frameDue = rafAnimate,
                          !.longWaits = longWaits + 1])

\* startGame that also calls animate() at once, while the intro runs.
StartGameAnimating ==
  /\ Idle /\ startScreen /\ ~pageError
  /\ LET g == [G EXCEPT !.startScreen = FALSE, !.camStart = now]
     IN Set(IF variant = "physics" THEN animateP(g) ELSE animateS(g, <<0, 0, 0>>, {}))

\* click on #play-button: startGame -> startCameraAnimation
StartGame ==
  /\ Idle /\ startScreen /\ ~pageError
  /\ Set([G EXCEPT !.startScreen = FALSE, !.camStart = now])

\* camAnim's last frame (t = 1): resetGameState(); animate()
IntroComplete ==
  /\ Idle /\ IntroDue
  /\ LET g == [G EXCEPT !.camStart = -1]
     IN IF variant = "physics"
          THEN Set(animateP(resetGameStateP(g)))
          ELSE Set(animateS(resetGameStateS(g), <<0, 0, 0>>, {}))

\* click on a restart button.  The listeners have no guard of their own;
\* clicks are taken once the first play-through has begun.
Restart ==
  /\ Idle /\ ~startScreen /\ camStart = -1
  /\ restarts < MaxRestarts
  /\ LET g == [G EXCEPT !.restarts = restarts + 1]
     IN IF variant = "physics"
          THEN LET g1 == resetGameStateP(g)
               IN Set(IF g1.animationId = "null" THEN animateP(g1) ELSE g1)
          ELSE /\ rafAnimate < MaxLoops
               /\ Set(animateS(resetGameStateS(g), <<0, 0, 0>>, {}))

\* joystick: a pull along the drive axis, or the release (the knob offset
\* and its reset timer, which only the joystick handlers read, stay as they
\* are here)
Joystick ==
  /\ Idle /\ rafAnimate > 0 /\ inputChanges < MaxInputChanges
  /\ \E in \in {<<FALSE, FALSE>>, <<TRUE, FALSE>>, <<FALSE, TRUE>>} :
       /\ in # <<accelerateInput, decelerateInput>>
       /\ Set([G EXCEPT !.accelerateInput = in[1], !.decelerateInput = in[2],
                         !.joystickActive = (in # <<FALSE, FALSE>>),
                         !.inputChanges = inputChanges + 1])

\* setTimeout callback of resetGameState
TimerFire ==
  /\ Idle
  /\ \E d \in timers :
       /\ d <= now
       /\ Set([G EXCEPT !.invulnerable = FALSE, !.timers = timers \ {d}])

\* physics build: animate callback, first part (entry test and fixed-step
\* loop), with at most cmax contacts in the frame.
AnimatePhysicsUpTo(cmax) ==
  /\ variant = "physics" /\ Idle /\ NoOverdueTimer /\ frameDue > 0
  /\ LET g == FrameFired(G)
         n == (physicsDeltaTime + (now - previousTime)) \div PHYSICS_STEP
     IN \E hit \in {1, Max(n, 1)}, c \in 0 .. cmax :
          /\ c = 0 => hit = 1
          /\ c > 0 => /\ n >= 1 /\ ~(gameOver \/ gameCompleted) /\ carLoaded
                      /\ c <= NearBodies(RunQuiet(g, hit - 1))
          /\ Set(animateLoopP(g, hit, c))

AnimatePhysics == AnimatePhysicsUpTo(maxObstacles)

\* physics build: animate callback, second part
AnimateVisuals ==
  /\ pc = "visuals"
  /\ Set([updateVisuals(G) EXCEPT !.pc = "spawn"])

\* physics build: animate callback, third part, the draws taken from D
AnimateSpawnFrom(D) ==
  /\ pc = "spawn"
  /\ \E r \in D : Set([animateSpawnP(G, r) EXCEPT !.pc = "idle"])

\* script.js: the whole animate callback, the draws taken from D and the
\* intersecting obstacles from the subsets of H
AnimateScriptFrom(D, H) ==
  /\ variant = "script" /\ Idle /\ NoOverdueTimer /\ frameDue > 0
  /\ LET g == FrameFired(G)
     IN \E r \in D, hits \in SUBSET H :
          /\ hits # {} => /\ ~(gameOver \/ gameCompleted) /\ carLoaded
                          /\ animateHeadS(g).distance < completionDistance
                          /\ hits \subseteq Touchable(animateMoveS(animateHeadS(g), r))
          /\ Set(animateS(g, r, hits))

\* In Spec the draws of one spawn are equal; SpawnSpec ranges over all
\* combinations of draws.
EqualDraws(n) == {[i \in 1 .. n |-> d] : d \in RandomDraws}
AllDraws(n) == [1 .. n -> RandomDraws]

AnimateSpawn == AnimateSpawnFrom(EqualDraws(4))
AnimateScript == AnimateScriptFrom(EqualDraws(3), DOMAIN obstaclePool)

\* orbitStep's last frame (t >= 1) for one of the running orbits
OrbitComplete ==
  /\ Idle /\ OrbitDue
  /\ \E onComplete \in orbits :
       LET g == [G EXCEPT !.orbitActive = FALSE, !.orbits = orbits \ {onComplete}]
       IN IF onComplete = "gameOver"
            THEN Set([g EXCEPT !.gameOverShown = TRUE])
            ELSE Set([updateLeaderboard(g) EXCEPT !.gameCompleteShown = TRUE])

\* click on the submit button of the name prompt
SubmitName ==
  /\ Idle /\ nameInputShown /\ submitPosition # -1
  /\ Set(submitClick(G))

Next ==
  \/ Tick
  \/ StartGame
  \/ IntroComplete
  \/ Restart
  \/ Joystick
  \/ TimerFire
  \/ AnimatePhysics
  \/ AnimateVisuals
  \/ AnimateSpawn
  \/ AnimateScript
  \/ OrbitComplete
  \/ SubmitName

Spec == Init /\ [][Next]_vars

\* The spawning side on its own: every combination of draws, no contacts,
\* no input.
NextSpawn ==
  \/ Tick
  \/ StartGame
  \/ IntroComplete
  \/ TimerFire
  \/ AnimatePhysicsUpTo(0)
  \/ AnimateVisuals
  \/ AnimateSpawnFrom(AllDraws(4))
  \/ AnimateScriptFrom(AllDraws(3), {})

SpawnSpec == Init /\ [][NextSpawn]_vars

\* The same steps after any outcome of the asset loads.
LoadSpec == InitLoad /\ [][NextSpawn]_vars

\* Frames keep firing: the browser lets DtLongSec pass before the next
\* callbacks, as often as something is pending.
FrameWait ==
  /\ Idle /\ NoOverdueTimer /\ frameDue = 0 /\ ~IntroDue /\ ~OrbitDue
  /\ camStart >= 0 \/ rafAnimate > 0 \/ orbits # {} \/ timers # {}
  /\ Set([G EXCEPT !.now = now + DtLongSec * SEC, !.frameDue = rafAnimate])

\* joystick pushed forward or released.  (A braked run takes two hours at
\* minVelocity, and obstacle speeds grow with difficultyRamp: positions leave
\* the integer range long before it ends.)
JoystickUp == Joystick /\ ~decelerateInput'

\* What the browser does on its own: it runs the callbacks that are due and
\* lets time pass.
Browser ==
  \/ FrameWait
  \/ IntroComplete
  \/ TimerFire
  \/ AnimatePhysics
  \/ AnimateVisuals
  \/ AnimateSpawn
  \/ AnimateScript
  \/ OrbitComplete

NextLive ==
  \/ Browser
  \/ StartGame
  \/ Restart
  \/ JoystickUp

\* No callback is due.
Drained == Idle /\ frameDue = 0 /\ ~IntroDue /\ ~OrbitDue /\ NoOverdueTimer

\* The browser never stops: time goes on while anything is pending, and the
\* callbacks that are due get run (every one of them takes a due callback
\* off the queue and none makes another one due, so fairness of the callback
\* actions comes to the queue being drained again and again; stated in this
\* form because ENABLED of the animate actions is too costly to evaluate).
\* The player's clicks and joystick moves are not forced.
LiveSpec == Init /\ [][NextLive]_vars /\ WF_vars(FrameWait) /\ []<>Drained

\* ------------------------------------------------------------ properties
Terminal == gameOver \/ gameCompleted
Racing == ~startScreen /\ camStart = -1 /\ ~Terminal
Threshold == IF variant = "script" THEN scriptCollisionLimit ELSE maxCollisions
PoolCapacity == IF variant = "script" THEN ScriptPoolSize ELSE maxObstacles
ActiveSlots == {i \in DOMAIN obstaclePool : obstaclePool[i].visible}
AllActive == ActiveSlots = DOMAIN obstaclePool
Sorted(lb) == \A i \in 1 .. (Len(lb) - 1) : lb[i].time <= lb[i + 1].time
InBounds(v) == minVelocity <= v /\ v <= maxVelocity
SpawnFloor == IF variant = "script" THEN 100 * METRE ELSE 50 * METRE

\* C1: the game is over exactly when collisionCount has reached the
\* threshold of the build (3 in script.js, maxCollisions in the physics
\* build): never before the threshold collision, always from it on.
C1_GameOverIffThreshold == gameOver <=> collisionCount >= Threshold

\* C1 witness: the third collision of a script.js run has ended the game.
C1_ThirdCollision ==
  variant = "script" /\ gameOver /\ collisionCount = scriptCollisionLimit

\* C2: gameOver and gameCompleted are never both true.
C2_MutuallyExclusive == ~(gameOver /\ gameCompleted)

\* C3: from a terminal state, no step other than a restart changes the
\* car's velocity or position, the obstacles or the collision count.
C3_NoTickAfterTerminal ==
  [][(Terminal /\ restarts' = restarts)
       => /\ velocity' = velocity /\ carZ' = carZ
          /\ obstaclePool' = obstaclePool /\ obstacles' = obstacles
          /\ collisionCount' = collisionCount]_vars

\* C4: the number of visible pool slots, and the length of the active
\* list, never exceed the pool capacity.
C4_PoolCapacity ==
  /\ Cardinality(ActiveSlots) <= PoolCapacity
  /\ Len(obstacles) <= PoolCapacity

\* C4 witness: the pool is full and a further spawn has been attempted.
C4_FullPool ==
  /\ Cardinality(ActiveSlots) = PoolCapacity
  /\ Len(obstacles) = PoolCapacity
  /\ lastSpawn = -1 /\ variant = "script"

\* C5: in a state where every slot is active, spawnObstacle (script.js,
\* part_003, part_006) leaves the pool and the active list as they are,
\* whatever the draws.
C5_SaturatedSpawnNoOp ==
  AllActive =>
    /\ \A r \in AllDraws(3) :
         /\ spawnObstacleS(G, r).obstaclePool = obstaclePool
         /\ spawnObstacleS(G, r).obstacles = obstacles
         /\ spawnObstacle006(G, r).obstaclePool = obstaclePool
         /\ spawnObstacle006(G, r).obstacles = obstacles
    /\ \A r \in AllDraws(4) :
         /\ spawnObstacleP(G, r).obstaclePool = obstaclePool
         /\ spawnObstacleP(G, r).obstacles = obstacles

\* C5 witness: a frame of script.js has called spawnObstacle on a full pool.
C5_RefusedSpawn == variant = "script" /\ AllActive /\ lastSpawn = -1 /\ obstacleTimer = 0

\* C6: in a Racing state the next simulation tick leaves the forward
\* velocity within [minVelocity, maxVelocity], whatever the inputs held.
C6_VelocityBound ==
  (Racing /\ pc = "idle") =>
    IF variant = "physics"
      THEN InBounds(updatePhysics(G, 0).velocity)
      ELSE /\ InBounds(velocityS(G, DtShortSec * SEC))
           /\ InBounds(velocityS(G, DtLongSec * SEC))

\* C7: the leaderboard is sorted ascending by time and has at most 10
\* entries, in every state (so after every insert).
C7_SortedAtMostTen == Sorted(leaderboard) /\ Len(leaderboard) <= 10

C9_InvulnerableWindow ==
  (variant = "physics" /\ ~startScreen /\ camStart = -1
     /\ now - startTime < invulnerabilityDuration)
    => collisionCount = 0

\* C10: a slot that becomes visible in a step lies at least the build's
\* spawn floor from the car (100 m in script.js, 50 m on either side in
\* part_003); the placements of the second script.js listing and of
\* part_006 keep 120 m and 150 m for every draw.
C10_SpawnDistance ==
  /\ [][\A i \in DOMAIN obstaclePool :
          (~obstaclePool[i].visible /\ obstaclePool'[i].visible)
            => Abs(obstaclePool'[i].z - carZ') >= SpawnFloor]_vars
  /\ [](\A r \in RandomDraws :
          /\ carZ - spawnZA(carZ, r) >= 100 * METRE
          /\ carZ - spawnZB(carZ, r) >= 120 * METRE
          /\ carZ - spawnZ006(carZ, r) >= 150 * METRE
          /\ carZ - spawnZ003(carZ, TRUE, r) >= 50 * METRE
          /\ spawnZ003(carZ, FALSE, r) - carZ >= 50 * METRE)

\* C10 witness: an obstacle has just been placed at exactly the floor.
C10_SpawnedAtFloor ==
  /\ lastSpawn >= 1 /\ obstacleTimer = 0 /\ pc = "idle"
  /\ obstaclePool[lastSpawn].visible
  /\ Abs(obstaclePool[lastSpawn].z - carZ) = SpawnFloor

C12_CollisionMonotone ==
  [][/\ collisionCount' < collisionCount
          => (restarts' = restarts + 1 /\ collisionCount' = 0)
     /\ collisionCount' > collisionCount
          => (frameDue' = frameDue - 1 /\ ~gameOver /\ restarts' = restarts)]_vars

\* C12 witness: a script.js play-through has counted two collisions and goes on.
C12_TwoCounted == variant = "script" /\ Racing /\ collisionCount = 2

\* C13: with accelerate held, N consecutive fixed ticks take the forward
\* velocity v0 to min(v0 + ACCEL_RATE * STEP * N, maxVelocity), in part_006
\* (STEP = 1/50 s), part_003 (STEP = 1/60 s) and script.js; from 6.944 m/s,
\* 50 ticks of 0.02 s give 11.944 m/s.
C13_AccelerateLaw ==
  accelerateInput =>
    /\ \A n \in 1 .. AccelTicks :
         /\ HoldAccelerate006(0 - velocity, n)
              = 0 - Min(velocity + ((15000 * PHYSICS_STEP006) \div SEC) * n, maxVelocity)
         /\ HoldAccelerateP(velocity, n)
              = Min(velocity + ((15000 * PHYSICS_STEP) \div SEC) * n, maxVelocity)
         /\ HoldAccelerateS(velocity, n)
              = Min(velocity + ((15000 * PHYSICS_STEP006) \div SEC) * n, maxVelocity)
    /\ HoldAccelerate006(0 - baseVelocity, 50) = 0 - 35832

\* C14: one animate frame runs at most TickCap fixed ticks, whatever the
\* frame delta: the car advances by at most TickCap steps at the larger of
\* the velocities before and after the frame, and less than one step of
\* time is carried over.
TickCap == 5

C14_TicksCapped ==
  [][(variant = "physics" /\ pc = "idle" /\ pc' = "visuals")
       => /\ carZ' - carZ <= TickCap * Max(velocity, velocity')
          /\ physicsDeltaTime' < PHYSICS_STEP]_vars

\* The session a restart listener leaves behind is Racing with the game
\* state reset, no intro running and an animate frame scheduled.
Resumed(r) ==
  /\ ~r.gameOver /\ ~r.gameCompleted /\ ~r.startScreen /\ r.camStart = -1
  /\ r.collisionCount = 0 /\ r.distance = 0 /\ r.obstacles = << >>
  /\ r.rafAnimate > 0

\* C15: from GameOver or Completed, the restart listener of each build
\* (script.js, part_003, part_006) puts the session back in Racing, without
\* intro, with the simulation loop scheduled.
C15_RestartResumes ==
  (Terminal /\ Idle /\ ~startScreen /\ camStart = -1) =>
    IF variant = "script"
      THEN Resumed(onRestart(G))
      ELSE Resumed(restartListener003(G)) /\ Resumed(restartListener006(G))

C17_StorageTolerated ==
  storedKind \in {"absent", "corrupt"}
    => (~pageError /\ (startScreen => leaderboard = << >>))

\* C18: whatever combination of model loads succeeded or failed, the obstacle
\* pool is initialised, and starting the session, ticking and spawning never
\* end in an uncaught error.
C18_LoadFailureTolerated == DOMAIN obstaclePool # {} /\ ~uncaught

\* The orbit started by handleGameCompletion ends: its callback runs
\* updateLeaderboard.
LeaderboardFlowTriggered == "complete" \in orbits /\ "complete" \notin orbits'

\* handleGameCompletion hands its callback to startCameraOrbit.
LeaderboardFlowArmed == "complete" \notin orbits /\ "complete" \in orbits'

\* C19: the leaderboard flow runs only in a Completed session (not on the
\* start screen, during the intro, while racing or after a game over), and
\* each run of it was armed by one transition to Completed.
C19_LeaderboardOnlyFromCompleted ==
  [][/\ LeaderboardFlowTriggered =>
          (gameCompleted /\ ~gameOver /\ ~startScreen /\ camStart = -1)
     /\ LeaderboardFlowArmed => (~gameCompleted /\ gameCompleted')]_vars

C21_ContactCountedOnce ==
  /\ (variant = "script" /\ Racing) =>
       \A i \in Touchable(G) :
         LET g1 == checkCollisions(G, {i})
         IN /\ g1.collisionCount = collisionCount + 1
            /\ ~g1.obstaclePool[i].visible
            /\ i \notin Touchable(g1)
  /\ (variant = "physics" /\ Racing /\ Idle /\ ~invulnerable /\ NearBodies(G) >= 1) =>
       LET g1 == Contacts(G, 1)
       IN /\ g1.collisionCount = collisionCount + 1
          /\ NearBodies(g1) = NearBodies(G) - 1

\* One script.js animate callback of a play-through that goes on.
ScriptFrame ==
  /\ variant = "script" /\ Racing /\ Racing' /\ restarts' = restarts
  /\ frameDue' = frameDue - 1

\* The obstacles updateObstacles looks at, and where it moves slot i to.
ListedVisible ==
  {i \in DOMAIN obstaclePool :
     obstaclePool[i].visible /\ \E k \in 1 .. Len(obstacles) : obstacles[k] = i}
AdvancedZ(i) == obstaclePool[i].z - Travel(obstaclePool[i].speed, now - previousTime)

Pedals == [accelerateInput : BOOLEAN, decelerateInput : BOOLEAN, velocity : {velocity, 0 - velocity}]

\* C23: exactly one branch of the forward-speed rule fires in a tick: with
\* accelerate set only the accelerate branch (whatever decelerate is), else
\* with decelerate set only the decelerate branch, else only the idle easing;
\* in script.js, part_001 and main.js.
C23_OneBranch ==
  \A in \in Pedals :
    LET v == in.velocity
        dt == frameDt
    IN /\ in.accelerateInput =>
            /\ velocityS(in, dt) = Min(v + 50 * dt, maxVelocity)
            /\ updateCarLogic001(v, TRUE, in.decelerateInput, dt)
                 = Min(v + ENGINE_FORCE001 * dt, MAX_FORWARD_SPEED)
            /\ updateCarLogicForce(TRUE, in.decelerateInput, v) = gasPedal(TRUE, v)
       /\ (~in.accelerateInput /\ in.decelerateInput) =>
            /\ velocityS(in, dt) = Max(v - 50 * dt, minVelocity)
            /\ updateCarLogic001(v, FALSE, TRUE, dt)
                 = Max(v - BRAKE_FORCE001 * dt, 0 - MAX_REVERSE_SPEED)
            /\ updateCarLogicForce(FALSE, TRUE, v) = brakePedal(TRUE, v)
       /\ (~in.accelerateInput /\ ~in.decelerateInput) =>
            /\ Abs(velocityS(in, dt) - baseVelocity) <= Abs(v - baseVelocity)
            /\ Abs(updateCarLogic001(v, FALSE, FALSE, dt) - idleSpeed) <= Abs(v - idleSpeed)

\* No input held, forward velocity v.
Idling(v) == [accelerateInput |-> FALSE, decelerateInput |-> FALSE, velocity |-> v]

\* w is v eased toward base by at most `step`, never past base.
EasedToward(v, w, base, step) ==
  /\ Abs(w - v) <= step
  /\ v >= base => (base <= w /\ w <= v)
  /\ v <= base => (v <= w /\ w <= base)

\* C24: with no input a tick moves the forward velocity toward baseVelocity
\* by at most IDLE_RATE * dt and never past it, and leaves it at
\* baseVelocity once there; in script.js, part_003 and main.js.
C24_IdleNoOvershoot ==
  /\ EasedToward(velocity, velocityS(Idling(velocity), frameDt), baseVelocity, 20 * frameDt)
  /\ EasedToward(velocity, currentVelZ(Idling(velocity)), baseVelocity, 20 * PHYSICS_STEP)
  /\ EasedToward(velocity, updateLogicVz(velocity, FALSE, FALSE, frameDt),
                 baseVelocityMain, 20 * frameDt)

\* The removal thresholds of updateObstacles: script.js tests 50 m, the
\* physics build 2000 m.
removalThresholdS == 50 * METRE
removalThresholdP == 2000 * METRE

\* The listed obstacles that are beyond `threshold` from the car in state g,
\* on either side of it.
BeyondThreshold(g, threshold) ==
  {i \in DOMAIN g.obstaclePool :
     /\ \E k \in 1 .. Len(g.obstacles) : g.obstacles[k] = i
     /\ Abs(g.obstaclePool[i].z - g.carZ) > threshold}

\* C25: an active obstacle that is farther from the car than the removal
\* threshold, behind it or ahead of it, is returned to the pool by the next
\* obstacle update: once updateObstacles has run, no listed obstacle is
\* beyond the threshold on either side.
C25_FarObstacleRecycled ==
  /\ (variant = "script" /\ Racing) =>
       \A dt \in {0, DtShortSec * SEC, DtLongSec * SEC} :
         BeyondThreshold(updateObstaclesS(G, dt), removalThresholdS) = {}
  /\ (variant = "physics" /\ Racing) =>
       BeyondThreshold(updateObstaclesP(G), removalThresholdP) = {}

\* A script.js obstacle that has run away a kilometre ahead of the car and
\* still holds its slot, with the pool full.
C25_RunawayKeepsSlot ==
  /\ variant = "script" /\ Racing
  /\ \E i \in ListedVisible : obstaclePool[i].z < carZ - 1000 * METRE
  /\ getObstacleFromPool(G) = -1

\* The script.js frame that is due, from the car's movement to the end of
\* updateObstacles.
MovedAndUpdated ==
  LET dt == now - previousTime
      v == velocityS(G, dt)
  IN updateObstaclesS([G EXCEPT !.velocity = v, !.carZ = carZ - Travel(v, dt)], dt)

\* C26: script.js updateObstacles never recycles by distance an obstacle the
\* car can still touch: every obstacle it hides is out of contact range of
\* the car, so recycling cannot swallow a collision that checkCollisions
\* would count.
C26_RecycledOutOfReach ==
  (variant = "script" /\ Racing) =>
    \A i \in ListedVisible :
      ~MovedAndUpdated.obstaclePool[i].visible =>
        Abs(MovedAndUpdated.obstaclePool[i].z - MovedAndUpdated.carZ) > ContactRangeM * METRE

\* An obstacle the car has overtaken by more than 50 m was recycled: its
\* slot is free again and nothing else has hidden it.
C26_RecycledByDistance ==
  /\ variant = "script" /\ Racing /\ collisionCount = 0 /\ restarts = 0
  /\ \E i \in DOMAIN obstaclePool :
       /\ ~obstaclePool[i].visible /\ obstaclePool[i].speed > 0
       /\ obstaclePool[i].z > carZ + 50 * METRE

\* The listed slots of a state, and the slot a spawn attempt takes in it.
Listed(g) == {g.obstacles[k] : k \in 1 .. Len(g.obstacles)}

\* What one expiry of the spawn timer does to the state `before` the
\* attempt: with a free slot, that slot is spawned ahead of or behind the car
\* and listed; with none, nothing is listed and no slot changes.
AttemptMade(before) ==
  LET slot == getObstacleFromPool(before)
  IN /\ obstacleTimer' = 0
     /\ IF slot = -1
          THEN /\ lastSpawn' = -1
               /\ Listed(G') \subseteq Listed(before)
               /\ \A i \in DOMAIN obstaclePool : obstaclePool'[i].visible => before.obstaclePool[i].visible
          ELSE /\ lastSpawn' = slot
               /\ obstaclePool'[slot].visible
               /\ Listed(G') \ Listed(before) = {slot}

\* What a frame whose timer has not expired does: the timer accumulates the
\* frame's dt and nothing is spawned.
NoAttempt(before, dt) ==
  /\ obstacleTimer' = obstacleTimer + dt
  /\ lastSpawn' = lastSpawn
  /\ Listed(G') \subseteq Listed(before)

\* C27: in a Racing frame spawnObstacle is called exactly when the spawn
\* timer plus the frame's dt reaches obstacleFrequency, once, and the timer
\* is 0 afterwards whether the call spawned or found the pool full; a call
\* that finds a free slot spawns into it, so a skipped spawn succeeds at the
\* first expiry with a free slot.  Otherwise the timer accumulates dt.
C27_SpawnOnExpiry ==
  [][ /\ ScriptFrame =>
           IF obstacleTimer + frameDt' >= obstacleFrequencyS
             THEN AttemptMade(MovedAndUpdated)
             ELSE NoAttempt(MovedAndUpdated, frameDt')
      /\ (variant = "physics" /\ pc = "spawn" /\ pc' = "idle" /\ Racing) =>
           IF obstacleTimer + frameDt >= obstacleFrequencyP
             THEN AttemptMade(G)
             ELSE NoAttempt(G, frameDt) ]_vars

\* A Racing frame has just called spawnObstacle on a full pool and zeroed
\* the timer.
C27_SkippedAndReset ==
  /\ Racing /\ pc = "idle" /\ lastSpawn = -1 /\ obstacleTimer = 0
  /\ getObstacleFromPool(G) = -1 /\ DOMAIN obstaclePool # {}

\* The entry the submit listener builds when it is clicked.
NewEntry(g) ==
  [time |-> g.elapsedTime, collisions |-> g.totalCollisions, score |-> g.scoreboard]

\* Reference: insert e into the sorted list lb after every entry whose time
\* is not larger (a stable sorted insert), then keep the first ten.
StableSortedInsert(lb, e) ==
  LET rank == Cardinality({j \in 1 .. Len(lb) : lb[j].time <= e.time})
  IN [k \in 1 .. (Len(lb) + 1) |->
        IF k <= rank THEN lb[k] ELSE IF k = rank + 1 THEN e ELSE lb[k - 1]]
Take10(s) == SubSeq(s, 1, Min(Len(s), 10))

\* updateLeaderboard followed by the click it has armed, with nothing in
\* between: the list that results for a finished run of time t on list lb.
InsertNow(lb, t) ==
  LET g == [G EXCEPT !.leaderboard = lb, !.elapsedTime = t]
  IN IF Position(lb, t) = -1 THEN lb
     ELSE submitClick(updateLeaderboard(g)).leaderboard

\* Sorted lists of every length up to 10 and times around their entries,
\* taken from the list the page holds.
Prefixes(lb) == {SubSeq(lb, 1, n) : n \in 0 .. Len(lb)}
TimesAround(lb) ==
  {elapsedTime} \cup UNION {{lb[i].time - 1, lb[i].time, lb[i].time + 1} : i \in 1 .. Len(lb)}

\* The pure part of C28: position search, splice and pop, run back to back,
\* evaluated where updateLeaderboard runs (a completed game).
InsertNowMatchesReference ==
  (gameCompleted /\ Sorted(leaderboard)) =>
    \A lb \in Prefixes(leaderboard), t \in TimesAround(leaderboard) :
      LET g == [G EXCEPT !.leaderboard = lb, !.elapsedTime = t]
      IN /\ InsertNow(lb, t) = Take10(StableSortedInsert(lb, NewEntry(g)))
         /\ Position(lb, t) # -1 =>
              /\ \A j \in 1 .. Position(lb, t) : ~(t < lb[j].time)
              /\ Position(lb, t) < Len(lb) => t < lb[Position(lb, t) + 1].time
         /\ Position(lb, t) = -1 => Len(lb) = 10 /\ InsertNow(lb, t) = lb

\* C28: a leaderboard insert puts the new entry at the first index whose
\* entry has a larger time, appends it when there is none and the list has
\* fewer than 10 entries, leaves a full list unchanged otherwise, and drops
\* the last entry beyond 10: on a sorted list of at most 10 entries the
\* result is the stable sorted insert of the new entry, cut to 10.  Stated
\* for the function run back to back and for every click of the submit
\* button the page accepts.
C28_InsertIsSortedInsert ==
  /\ InsertNowMatchesReference
  /\ (Idle /\ nameInputShown /\ submitPosition # -1 /\ Sorted(leaderboard) /\ Len(leaderboard) <= 10) =>
       submitClick(G).leaderboard = Take10(StableSortedInsert(leaderboard, NewEntry(G)))

\* resetGameState of the build that is running.
resetGameState(g) ==
  IF g.variant = "script" THEN resetGameStateS(g) ELSE resetGameStateP(g)

\* The defaults resetGameState restores, the forward velocity apart.
DefaultsRestored(r) ==
  /\ r.collisionCount = 0 /\ r.totalCollisions = 0
  /\ r.distance = 0 /\ r.scoreboard = 0
  /\ ~r.gameOver /\ ~r.gameCompleted
  /\ r.obstacleTimer = 0 /\ r.difficultyRamp = 0
  /\ r.carZ = 0
  /\ r.obstacles = << >>
  /\ \A i \in DOMAIN r.obstaclePool : ~r.obstaclePool[i].visible

\* C29: from any state resetGameState leaves collisionCount, totalCollisions,
\* distance and score at 0, gameOver and gameCompleted false, the spawn timer
\* and the difficulty ramp at 0, the car at its start position with the base
\* forward velocity, and no pool slot active.
C29_ResetRestoresDefaults ==
  /\ DefaultsRestored(resetGameState(G))
  /\ resetGameState(G).velocity = baseVelocity

\* What holds of both builds: every default but the velocity, which is
\* baseVelocity in script.js and 0 in the physics build.
ResetButVelocity ==
  /\ DefaultsRestored(resetGameState(G))
  /\ resetGameState(G).velocity = IF variant = "script" THEN baseVelocity ELSE 0

\* ------------------------------------------------------------ side movement
\* Lateral velocities are in 1/10000 m/s.
steerSpeed == 50000      \* velocity.x = 5 / -5
snapBelow == 500         \* Math.abs(velocity.x) < 0.05
MaxSideK == 24           \* starting lateral velocities: multiples up to this

\* velocity.x *= 0.9, rounded to the nearest unit.
timesPointNine(v) ==
  IF v >= 0 THEN (v * 9 + 5) \div 10 ELSE 0 - ((9 * (0 - v) + 5) \div 10)

\* Damping that never sets the velocity to 0.
dampNoSnap(v) == timesPointNine(v)

\* The else branch of the side movement: damp, then snap to 0.
dampSide(v) ==
  IF Abs(timesPointNine(v)) < snapBelow THEN 0 ELSE timesPointNine(v)

\* updatePhysics, side movement.
sideMovement(g) ==
  [g EXCEPT !.velocityX = IF g.moveLeft THEN 0 - steerSpeed
                          ELSE IF g.moveRight THEN steerSpeed
                          ELSE dampSide(g.velocityX)]

\* Lateral velocities a contact or a steer can leave the car with: up to
\* three times the steer speed, and values around the snap threshold.
SideStarts ==
  {(k * steerSpeed) \div 8 : k \in (0 - MaxSideK) .. MaxSideK}
    \cup {k * 111 : k \in (0 - MaxSideK) .. MaxSideK}

\* One fixed step, the side movement alone.
SideTick ==
  /\ variant = "physics" /\ carLoaded /\ ~pageError
  /\ Set(sideMovement(G))

\* updateJoystick / onJoystickEnd: the steer inputs change.
Steer ==
  /\ ~pageError
  /\ \E in \in {<<FALSE, FALSE>>, <<TRUE, FALSE>>, <<FALSE, TRUE>>} :
       /\ in # <<moveLeft, moveRight>>
       /\ Set([G EXCEPT !.moveLeft = in[1], !.moveRight = in[2],
                         !.joystickActive = (in # <<FALSE, FALSE>>)])

NextSide ==
  \/ SideTick
  \/ Steer

InitSide ==
  /\ variant = "physics"
  /\ InitWith({TRUE}, {TRUE})
  /\ ~pageError
  /\ velocityX \in SideStarts /\ heading = 0

\* The fixed-step loop keeps ticking.
SideSpec == InitSide /\ [][NextSide]_vars /\ WF_vars(SideTick)

SteerReleased == ~moveLeft /\ ~moveRight

\* C30: with no steer held a tick multiplies the magnitude of the lateral
\* velocity by 0.9 (sign kept) or sets it to exactly 0 when the product is
\* below 0.05; the velocity reaches 0 after finitely many ticks, and at 0 a
\* tick leaves it 0, until a steer input is held.
C30_LateralDecay ==
  /\ [][ (SteerReleased /\ SteerReleased') =>
           IF 9 * Abs(velocityX) + 5 < 10 * snapBelow
             THEN velocityX' = 0
             ELSE /\ 10 * Abs(velocityX') \in (9 * Abs(velocityX) - 4) .. (9 * Abs(velocityX) + 5)
                  /\ Abs(velocityX') < Abs(velocityX)
                  /\ (velocityX' > 0) = (velocityX > 0) ]_vars
  /\ SteerReleased ~> (velocityX = 0 \/ ~SteerReleased)

\* A decayed velocity that ticks have reached and that the next tick snaps
\* to 0.
C30_AboutToSnap ==
  /\ SteerReleased /\ velocityX # 0 /\ velocityX \notin SideStarts
  /\ dampSide(velocityX) = 0

\* ------------------------------------------------- wheel builds (main.js, part_000)
\* Headings are in 1/3000 rad, steeringAngle in 1/SteerDen of full lock.
MAX_STEERING_ANGLE == 2356   \* Math.PI / 4
STEERING_RESPONSE == 20      \* 2 rad/s, per time unit
wheelResetDelay == 90        \* setTimeout(..., 300)
SteerDen == 2                \* pointer angles are k/SteerDen, k in -SteerDen..SteerDen
MaxWheelTime == 180          \* frames of the wheel builds run up to this time
WheelDtShort == 15           \* a frame 50 ms after the last one
WheelDtLong == 45            \* a frame 150 ms after the last one
MaxHeadingK == 1             \* starting headings: multiples up to this
MaxPendingResets == 2        \* reset timers pending at once

WheelVariants == {"main", "part_000"}
PointerAngles == (0 - SteerDen) .. SteerDen
WheelDts == {WheelDtShort, WheelDtLong}
HeadingStarts == {k * MAX_STEERING_ANGLE : k \in (0 - MaxHeadingK) .. MaxHeadingK}

clamp(x, lo, hi) == Max(lo, Min(hi, x))
targetHeading(angle) == (angle * MAX_STEERING_ANGLE) \div SteerDen

\* updateCarLogic that always turns by the full STEERING_RESPONSE * dt.
updateHeadingFull(h, angle, dt) ==
  LET diff == targetHeading(angle) - h
  IN IF diff > 0 THEN h + STEERING_RESPONSE * dt
     ELSE IF diff < 0 THEN h - STEERING_RESPONSE * dt
     ELSE h

\* updateCarLogic, steering: the heading read from the body, turned towards
\* the target by the clamped difference, and written back.
updateHeading(h, angle, dt) ==
  LET diff == targetHeading(angle) - h
      turn == clamp(diff, 0 - STEERING_RESPONSE * dt, STEERING_RESPONSE * dt)
  IN h + turn

\* animate of the wheel builds, dt after the previous frame; timers that
\* are due run first.
WheelFrame ==
  /\ variant \in WheelVariants
  /\ \E dt \in WheelDts :
       /\ now + dt <= MaxWheelTime
       /\ \A d \in wheelTimers : d >= now + dt
       /\ Set([G EXCEPT !.now = now + dt, !.previousTime = now + dt,
                        !.heading = updateHeading(heading, steeringAngle, dt)])

\* onSteeringWheelStart for a pointer at angle a.  part_000 calls
\* updateSteeringWheel, which it does not define: the listener ends there
\* with a ReferenceError, steeringAngle untouched.
onSteeringWheelStart(g, a) ==
  IF g.variant = "part_000"
    THEN [g EXCEPT !.steeringWheelActive = TRUE, !.pointerAngle = a, !.uncaught = TRUE]
    ELSE [g EXCEPT !.steeringWheelActive = TRUE, !.pointerAngle = a, !.steeringAngle = a]

onSteeringWheelMove(g, a) ==
  IF ~g.steeringWheelActive THEN g
  ELSE [g EXCEPT !.pointerAngle = a, !.steeringAngle = a]

onSteeringWheelEnd(g) ==
  IF ~g.steeringWheelActive THEN g
  ELSE [g EXCEPT !.steeringWheelActive = FALSE,
                 !.wheelTimers = g.wheelTimers \cup {g.now + wheelResetDelay}]

\* The callback onSteeringWheelEnd has set, due at d.
wheelResetTimer(g, d) ==
  [g EXCEPT !.steeringAngle = 0, !.wheelTimers = g.wheelTimers \ {d}]

WheelStart ==
  /\ variant \in WheelVariants
  /\ \E a \in PointerAngles : Set(onSteeringWheelStart(G, a))

WheelMove ==
  /\ variant \in WheelVariants /\ steeringWheelActive
  /\ \E a \in PointerAngles : Set(onSteeringWheelMove(G, a))

WheelEnd ==
  /\ variant \in WheelVariants /\ steeringWheelActive
  /\ Cardinality(wheelTimers \cup {now + wheelResetDelay}) <= MaxPendingResets
  /\ Set(onSteeringWheelEnd(G))

WheelTimerFire ==
  /\ variant \in WheelVariants
  /\ \E d \in wheelTimers : d <= now /\ Set(wheelResetTimer(G, d))

NextWheel ==
  \/ WheelFrame
  \/ WheelStart
  \/ WheelMove
  \/ WheelEnd
  \/ WheelTimerFire

\* The wheel builds once the page has loaded, the car at any heading.
InitWheel ==
  /\ variant \in WheelVariants
  /\ InitWith({TRUE}, {TRUE})
  /\ storedKind = "absent"
  /\ velocityX = 0
  /\ heading \in HeadingStarts

WheelSpec == InitWheel /\ [][NextWheel]_vars

C32_ScoreIsFloorOfDistance ==
  Idle => /\ scoreboard * METRE <= distance
          /\ distance < (scoreboard + 1) * METRE

\* A frame has left a distance that is not a whole number of metres, with a
\* positive score.
C32_FractionalDistance ==
  Idle /\ scoreboard >= 1 /\ distance % METRE # 0

\* C33: between callbacks the obstacles list holds exactly the pool slots
\* whose visible flag is set, each once: no duplicate, no hidden slot left in
\* the list, no visible slot missing from it.
C33_ListMatchesVisible ==
  Idle => /\ Listed(G) = {i \in DOMAIN obstaclePool : obstaclePool[i].visible}
          /\ Len(obstacles) = Cardinality(Listed(G))

\* script.js has spawned obstacles, counted a collision and hidden a slot it
\* had spawned, and obstacles are still in play.
C33_SpawnedHiddenHit ==
  /\ variant = "script" /\ Idle /\ collisionCount >= 1 /\ obstacles # << >>
  /\ \E i \in DOMAIN obstaclePool : ~obstaclePool[i].visible /\ obstaclePool[i].speed > 0

\* C34: at most one animate loop is alive: whatever the sequence of play,
\* terminal transitions and restart clicks, there is never more than one
\* pending requestAnimationFrame(animate) callback.
C34_OneLoop == rafAnimate <= 1

\* The while loop of animate on the accumulator alone: what is left of acc
\* and how many times updatePhysics has run, `ticks` runs in.
RECURSIVE fixedStepLoop(_, _, _)
fixedStepLoop(acc, step, ticks) ==
  IF acc >= step
    THEN LET a == acc - step
             t == ticks + 1
         IN IF a = a /\ t = t THEN fixedStepLoop(a, step, t)
            ELSE [physicsDeltaTime |-> a, ticks |-> t]
    ELSE [physicsDeltaTime |-> acc, ticks |-> ticks]

\* Frames at display rate: the waits between callbacks are not multiples of
\* the physics step.
StepDtA == 7             \* a frame 23 ms after the last one
StepDtB == 16            \* a frame 53 ms after the last one
MaxStepTime == 520       \* time up to which these frames run
StepWait ==
  /\ Idle /\ NoOverdueTimer /\ frameDue = 0 /\ ~IntroDue /\ ~OrbitDue
  /\ camStart >= 0 \/ rafAnimate > 0
  /\ \E dt \in {StepDtA, StepDtB, introDuration} :
       /\ now + dt <= MaxStepTime
       /\ Set([G EXCEPT !.now = now + dt, !.frameDue = rafAnimate])

NextStep ==
  \/ StepWait
  \/ StartGame
  \/ IntroComplete
  \/ AnimatePhysicsUpTo(0)
  \/ AnimateVisuals
  \/ AnimateSpawn

\* The physics build, the car model loaded or not.
InitStep ==
  /\ variant = "physics"
  /\ InitWith(BOOLEAN, {TRUE})
  /\ storedKind = "absent"
  /\ velocityX = 0 /\ heading = 0

StepSpec == InitStep /\ [][NextStep]_vars

\* C35: after every animate callback of the fixed-step builds the
\* accumulator is within [0, PHYSICS_STEP), and the callback has run
\* floor((accumulator before + dt) / PHYSICS_STEP) ticks: what the loop
\* leaves is the sum less that many steps.
C35_AccumulatorDrained ==
  /\ [](variant = "physics" /\ Idle =>
          0 <= physicsDeltaTime /\ physicsDeltaTime < PHYSICS_STEP)
  /\ [](variant = "physics" /\ Idle /\ Racing =>
          \A dt \in {0, StepDtA, StepDtB} :
            \A step \in {PHYSICS_STEP, PHYSICS_STEP006} :
              LET acc == physicsDeltaTime + dt
                  end == fixedStepLoop(acc, step, 0)
              IN /\ end.ticks = acc \div step
                 /\ 0 <= end.physicsDeltaTime /\ end.physicsDeltaTime < step)
  /\ [][ (variant = "physics" /\ pc = "idle" /\ pc' = "visuals") =>
            /\ frameDt' = now - previousTime
            /\ physicsDeltaTime' = (physicsDeltaTime + frameDt') % PHYSICS_STEP ]_vars

\* C36: while the wheel is held, steeringAngle is the value of the most
\* recent pointer event; no reset timer of an earlier release changes it.
C36_HeldWheelFollowsPointer ==
  variant \in WheelVariants /\ steeringWheelActive => steeringAngle = pointerAngle


\* C37: the entry the submit click writes is that of the completed
\* play-through shown with the name prompt: its time, collisions and score
\* are those printed at completion, and it goes in at the position that
\* time has in the list.
C37_EntryOfCompletedRun ==
  [][ (pc = "idle" /\ nameInputShown /\ ~nameInputShown' /\ leaderboard' # leaderboard) =>
        LET e == leaderboard'[submitPosition + 1]
        IN /\ formatTime(e.time) = completionTime
           /\ e.collisions = gameResultStats.collisions
           /\ e.score = gameResultStats.score
           /\ Position(leaderboard, e.time) = submitPosition ]_vars


\* updateHealthBar: the health left, in percent, before the clamp at 0.
healthPercentage(g) == ((maxCollisions - g.collisionCount) * 100) \div maxCollisions

\* C38: in the health-bar build collisionCount never exceeds maxCollisions,
\* so the health percentage lies between 0 and 100.
C38_HealthWithinRange ==
  variant = "physics" =>
    /\ 0 <= collisionCount /\ collisionCount <= maxCollisions
    /\ 0 <= healthPercentage(G) /\ healthPercentage(G) <= 100

\* The game has ended on the last allowed collision: the health bar is empty.
C38_HealthExhausted ==
  /\ variant = "physics" /\ gameOver
  /\ collisionCount = maxCollisions /\ healthPercentage(G) = 0


\* ------------------------------------------------------------- joystick
\* The joystick handlers of script.js and part_003 (the same text in both).
\* A pointer event is given by its offset from the centre of the base, in
\* the units of joystickMaxDistance.
joystickMaxDistance == 10      \* joystickBase.offsetWidth / 2
deadZone == 200                \* 0.2, in 1/1000
knobResetDelay == 90           \* 300 ms
JoyDtShort == 30               \* 100 ms between events
JoyDtLong == 90                \* 300 ms between events
MaxJoyTime == 270              \* time up to which events are followed
MaxPendingKnobResets == 2      \* knob resets pending at a time

\* Pointer offsets (x, y): the centre, the edge of the dead zone, just past
\* it on each axis, a diagonal on the rim and two beyond the rim (clamped).
\* Their distances from the centre are whole numbers.
PointerOffsets ==
  { <<0, 0>>, <<0, 2>>, <<0, 3>>, <<0, -3>>, <<3, 0>>, <<-3, 0>>,
    <<6, 8>>, <<-12, 16>>, <<12, -16>> }

\* Math.sqrt(x * x + y * y) for these offsets.
pointerDist(p) == CHOOSE d \in 0 .. 2 * joystickMaxDistance : d * d = p[1] * p[1] + p[2] * p[2]

\* onJoystickEnd that leaves the input flags as the last move set them.
onJoystickEndKeep(g) ==
  IF ~g.joystickActive THEN g
  ELSE [g EXCEPT !.joystickActive = FALSE,
                 !.knobTimers = g.knobTimers \cup {g.now + knobResetDelay}]

\* updateJoystick: the offset clamped to the rim, as a fraction of
\* joystickMaxDistance, and the four flags from it and the dead zone.
updateJoystick(g, p) ==
  LET dist == pointerDist(p)
      clampedDist == Min(dist, joystickMaxDistance)
      jx == IF dist = 0 THEN 0
            ELSE (clampedDist * p[1] * 1000) \div (dist * joystickMaxDistance)
      jy == IF dist = 0 THEN 0
            ELSE (clampedDist * p[2] * 1000) \div (dist * joystickMaxDistance)
  IN [g EXCEPT !.joystickX = jx, !.joystickY = jy,
               !.accelerateInput = (jy > deadZone),
               !.decelerateInput = (jy < -deadZone),
               !.moveLeft = (jx < -deadZone),
               !.moveRight = (jx > deadZone)]

onJoystickStart(g, p) == updateJoystick([g EXCEPT !.joystickActive = TRUE], p)

onJoystickMove(g, p) == IF ~g.joystickActive THEN g ELSE updateJoystick(g, p)

onJoystickEnd(g) ==
  IF ~g.joystickActive THEN g
  ELSE [g EXCEPT !.joystickActive = FALSE,
                 !.knobTimers = g.knobTimers \cup {g.now + knobResetDelay},
                 !.accelerateInput = FALSE, !.decelerateInput = FALSE,
                 !.moveLeft = FALSE, !.moveRight = FALSE]

\* The callback onJoystickEnd has set, due at d.
knobResetTimer(g, d) ==
  [g EXCEPT !.joystickX = 0, !.joystickY = 0, !.knobTimers = g.knobTimers \ {d}]

\* Time passes between events; timers that are due run first.
JoyWait ==
  \E dt \in {JoyDtShort, JoyDtLong} :
    /\ now + dt <= MaxJoyTime
    /\ \A d \in knobTimers : d >= now + dt
    /\ Set([G EXCEPT !.now = now + dt])

\* touchstart / mousedown on the base
JoystickStart == \E p \in PointerOffsets : Set(onJoystickStart(G, p))

\* touchmove on the base / mousemove anywhere in the document
JoystickMove == \E p \in PointerOffsets : Set(onJoystickMove(G, p))

\* touchend on the base / mouseup anywhere in the document
JoystickEnd ==
  /\ Cardinality(knobTimers \cup {now + knobResetDelay}) <= MaxPendingKnobResets
  /\ Set(onJoystickEnd(G))

KnobTimerFire == \E d \in knobTimers : d <= now /\ Set(knobResetTimer(G, d))

NextJoy ==
  \/ JoyWait
  \/ JoystickStart
  \/ JoystickMove
  \/ JoystickEnd
  \/ KnobTimerFire

InitJoy ==
  /\ variant \in Variants
  /\ InitWith({TRUE}, {TRUE})
  /\ storedKind = "absent"
  /\ velocityX = 0 /\ heading = 0

JoySpec == InitJoy /\ [][NextJoy]_vars

\* C39: whenever the joystick is not held, none of the four input flags is
\* set, whatever start, move and end events and knob-reset timers have run.
C39_ReleasedMeansNoInput ==
  ~joystickActive =>
    ~accelerateInput /\ ~decelerateInput /\ ~moveLeft /\ ~moveRight

\* The joystick has been released from a pull past the dead zone: the knob
\* offset is still that of the pull, its reset pending, and no flag is set.
C39_ReleasedFromPull ==
  /\ ~joystickActive /\ knobTimers # {}
  /\ joystickY > deadZone /\ joystickX < -deadZone
  /\ ~accelerateInput /\ ~moveLeft

====
